---- MODULE Spec2Model ----
(***************************************************************************)
(* Exoscript language server: the text analysis engine.                    *)
(*                                                                         *)
(*   Lexer            (lexer.ts)   line classifier                         *)
(*   Parser           (parser.ts)  story / choice tree builder, jump check *)
(*   validateBrackets (parser.ts)  [if] ... [endif] balance over raw text  *)
(*   analyzeDiagnostics (diagnostics.ts)  the stages run in sequence, lint *)
(*   Server           (server.ts)  parse memo, validation, problem limit   *)
(*                                                                         *)
(* A string is a sequence of one-character strings; character offsets,     *)
(* line numbers and indexOf results are zero-based as in the source.       *)
(***************************************************************************)
EXTENDS Integers, Sequences, FiniteSets, TLC

VARIABLES lines, pc, vb, lexer, parser, diagnostics, server, workspace, reply

vars == <<lines, pc, vb, lexer, parser, diagnostics, server, workspace, reply>>

(***************************************************************************)
(* Bounds of the checked instances                                         *)
(***************************************************************************)
MaxBracketLines == 3
MaxLexLines == 2
MaxParseLines == 5
MaxJumpLines == 4
MaxDiagLines == 2
MaxFaultLines == 2
MaxHiddenLines == 4
MaxCurrentLines == 4
MaxPreambleLines == 3
MaxFoldLines == 4
MaxCompletionLines == 3
MaxColumn == 5
MaxFillerLines == 11
MaxTailLines == 2

(***************************************************************************)
(* String primitives (String.prototype / RegExp character classes)         *)
(***************************************************************************)
LowerLetters ==
  <<"a","b","c","d","e","f","g","h","i","j","k","l","m",
    "n","o","p","q","r","s","t","u","v","w","x","y","z">>

UpperLetters ==
  <<"A","B","C","D","E","F","G","H","I","J","K","L","M",
    "N","O","P","Q","R","S","T","U","V","W","X","Y","Z">>

DigitChars == {"0","1","2","3","4","5","6","7","8","9"}

Range(s) == {s[i] : i \in DOMAIN s}

\* \s
IsSpace(c) == c \in {" ", "\t", "\r"}

\* \w
IsWord(c) == c \in Range(LowerLetters) \cup Range(UpperLetters) \cup DigitChars \cup {"_"}

ToLowerChar(c) ==
  IF c \in Range(UpperLetters)
    THEN LowerLetters[CHOOSE i \in DOMAIN UpperLetters : UpperLetters[i] = c]
    ELSE c

toLowerCase(s) == [i \in DOMAIN s |-> ToLowerChar(s[i])]

\* s.substring(a, b) and s.substring(a)
substring(s, a, b) == SubSeq(s, a + 1, b)

substringFrom(s, a) == SubSeq(s, a + 1, Len(s))

\* does pat occur in s at zero-based offset k
MatchAt(s, pat, k) ==
  /\ k >= 0
  /\ k + Len(pat) <= Len(s)
  /\ \A j \in 1..Len(pat) : s[k + j] = pat[j]

\* s.indexOf(pat, from): the least offset >= from, or -1
indexOf(s, pat, from) ==
  LET hits == {k \in from..(Len(s) - Len(pat)) : MatchAt(s, pat, k)}
  IN  IF hits = {} THEN -1 ELSE CHOOSE k \in hits : \A h \in hits : k <= h

startsWith(s, pat) == MatchAt(s, pat, 0)

\* s.trim()
trim(s) ==
  LET solid == {i \in DOMAIN s : ~IsSpace(s[i])}
  IN  IF solid = {} THEN <<>>
      ELSE SubSeq(s, CHOOSE i \in solid : \A j \in solid : i <= j,
                     CHOOSE i \in solid : \A j \in solid : i >= j)

\* length of the longest run of characters satisfying a class, from offset k
RECURSIVE SpaceRun(_, _)
SpaceRun(s, k) ==
  IF k < Len(s) /\ IsSpace(s[k + 1]) THEN 1 + SpaceRun(s, k + 1) ELSE 0

RECURSIVE WordRun(_, _)
WordRun(s, k) ==
  IF k < Len(s) /\ IsWord(s[k + 1]) THEN 1 + WordRun(s, k + 1) ELSE 0

RECURSIVE CharRun(_, _, _)
CharRun(s, c, k) ==
  IF k < Len(s) /\ s[k + 1] = c THEN 1 + CharRun(s, c, k + 1) ELSE 0

\* s.split(/\s/)[0]
FirstField(s) ==
  LET sp == {i \in DOMAIN s : IsSpace(s[i])}
  IN  IF sp = {} THEN s
      ELSE SubSeq(s, 1, (CHOOSE i \in sp : \A j \in sp : i <= j) - 1)

makeRange(line, start, end) ==
  [start |-> [line |-> line, character |-> start],
   end   |-> [line |-> line, character |-> end]]

\* all sequences over S of length lo..hi
SeqsOf(S, lo, hi) == UNION {[1..n -> S] : n \in lo..hi}

(***************************************************************************)
(* Source text fragments                                                   *)
(***************************************************************************)
SP == <<" ">>
OpenComment == <<"/","*">>
CloseComment == <<"*","/">>
LineCommentMark == <<"/","/">>
InlineComment == <<"/","*","c","*","/">>
BrIf == <<"[","i","f"," ","x","]">>
BrIfUpper == <<"[","I","F"," ","x","]">>
BrIfBare == <<"[","i","f","]">>
BrEndif == <<"[","e","n","d","i","f","]">>
BrEnd == <<"[","e","n","d","]">>
BrElse == <<"[","e","l","s","e","]">>
BrElseif == <<"[","e","l","s","e","i","f"," ","x","]">>
BrOr == <<"[","o","r","]">>
BrBar == <<"[","|","]">>
BrVar == <<"[","=","v","]">>

(***************************************************************************)
(* validateBrackets (parser.ts)                                            *)
(***************************************************************************)
\* the bracket keyword tests of the scan loop, on the trimmed lower-cased content
IsOpeningKeyword(content) ==
  \/ startsWith(content, <<"i","f"," ">>)
  \/ content = <<"i","f">>
  \/ startsWith(content, <<"i","f"," ","r","a","n","d","o","m">>)

IsClosingKeyword(content) ==
  content = <<"e","n","d","i","f">> \/ content = <<"e","n","d">>

IsMiddleKeyword(content) ==
  \/ content = <<"e","l","s","e">>
  \/ startsWith(content, <<"e","l","s","e"," ">>)
  \/ content = <<"e","l","s","e","i","f">>
  \/ startsWith(content, <<"e","l","s","e","i","f"," ">>)
  \/ content = <<"o","r">>
  \/ startsWith(content, <<"o","r"," ">>)
  \/ content = <<"|">>

\* bracketRegex.exec(line) from lastIndex, for /\[([^\]]*)\]/g:
\* the leftmost "[" that has a "]" after it, up to the first such "]"
BracketExec(line, lastIndex) ==
  LET open == indexOf(line, <<"[">>, lastIndex)
      close == IF open = -1 THEN -1 ELSE indexOf(line, <<"]">>, open + 1)
  IN  IF open = -1 \/ close = -1
        THEN [found |-> FALSE, index |-> 0, length |-> 0, inner |-> <<>>]
        ELSE [found |-> TRUE, index |-> open, length |-> close + 1 - open,
              inner |-> substring(line, open + 1, close)]

\* the comment handling at the head of the line loop; skip is the `continue`
StripComments(line0, inBlock0) ==
  LET endIdx == indexOf(line0, CloseComment, 0)
      skip == inBlock0 /\ endIdx = -1
      line1 == IF inBlock0 /\ endIdx # -1 THEN substringFrom(line0, endIdx + 2) ELSE line0
      blockStart == indexOf(line1, OpenComment, 0)
      blockEnd == IF blockStart = -1 THEN -1 ELSE indexOf(line1, CloseComment, blockStart + 2)
      inBlock2 == blockStart # -1 /\ blockEnd = -1
      line2 == IF blockStart = -1 THEN line1
               ELSE IF blockEnd = -1 THEN substring(line1, 0, blockStart)
               ELSE substring(line1, 0, blockStart) \o substringFrom(line1, blockEnd + 2)
      commentIdx == indexOf(line2, LineCommentMark, 0)
      line3 == IF commentIdx # -1 THEN substring(line2, 0, commentIdx) ELSE line2
  IN  IF skip THEN [skip |-> TRUE, inBlockComment |-> TRUE, line |-> <<>>]
      ELSE [skip |-> FALSE, inBlockComment |-> inBlock2, line |-> line3]

UnmatchedEndifError(content, lineNum, startChar, length) ==
  [message |-> "Unexpected [${content}] - no matching [if]", arg |-> content,
   range |-> [start |-> [line |-> lineNum, character |-> startChar],
              end |-> [line |-> lineNum, character |-> startChar + length]],
   severity |-> "error", code |-> "unmatched-endif"]

OrphanedElseError(inner, lineNum, startChar, length) ==
  [message |-> "[${match[1].trim()}] outside of [if] block", arg |-> trim(inner),
   range |-> [start |-> [line |-> lineNum, character |-> startChar],
              end |-> [line |-> lineNum, character |-> startChar + length]],
   severity |-> "error", code |-> "orphaned-else"]

UnclosedIfError(frame) ==
  [message |-> "Unclosed [if] - missing [endif] or [end]", arg |-> <<>>,
   range |-> [start |-> [line |-> frame.line, character |-> frame.character],
              end |-> [line |-> frame.line, character |-> frame.character + 3]],
   severity |-> "error", code |-> "unclosed-if"]

VbInit ==
  [errors |-> <<>>, stack |-> <<>>, inBlockComment |-> FALSE,
   lineNum |-> 0, line |-> <<>>, lastIndex |-> 0]

\* head of one iteration of the line loop: comment stripping
VbLine ==
  /\ pc = "vb_line"
  /\ vb.lineNum < Len(lines)
  /\ LET r == StripComments(lines[vb.lineNum + 1], vb.inBlockComment)
     IN  IF r.skip
           THEN /\ vb' = [vb EXCEPT !.lineNum = @ + 1]
                /\ pc' = pc
           ELSE /\ vb' = [vb EXCEPT !.inBlockComment = r.inBlockComment,
                                    !.line = r.line, !.lastIndex = 0]
                /\ pc' = "vb_scan"
  /\ UNCHANGED <<workspace, reply, diagnostics, server, lines, lexer, parser>>

\* OnClosing leaving the matched frame on the stack
OnClosing_KeepsFrame(v, content, m) ==
  IF Len(v.stack) = 0
    THEN [v EXCEPT !.errors = Append(@, UnmatchedEndifError(content, v.lineNum, m.index, m.length))]
    ELSE v

\* the effect of one bracket match on the frame stack and the error list
OnClosing(v, content, m) ==
  IF Len(v.stack) = 0
    THEN [v EXCEPT !.errors = Append(@, UnmatchedEndifError(content, v.lineNum, m.index, m.length))]
    ELSE [v EXCEPT !.stack = SubSeq(@, 1, Len(@) - 1)]

\* OnMiddle accepting a middle keyword silently whatever the stack
OnMiddle_Silent(v, m) == v

OnMiddle(v, m) ==
  IF Len(v.stack) = 0
    THEN [v EXCEPT !.errors = Append(@, OrphanedElseError(m.inner, v.lineNum, m.index, m.length))]
    ELSE v

OnOpening(v, m) ==
  [v EXCEPT !.stack = Append(@, [keyword |-> "if", line |-> v.lineNum, character |-> m.index])]

\* one iteration of the while loop over bracketRegex.exec
VbMatch ==
  /\ pc = "vb_scan"
  /\ LET m == BracketExec(vb.line, vb.lastIndex)
         content == toLowerCase(trim(m.inner))
     IN  IF ~m.found
           THEN /\ vb' = [vb EXCEPT !.lineNum = @ + 1]
                /\ pc' = "vb_line"
           ELSE /\ vb' = [(IF IsOpeningKeyword(content) THEN OnOpening(vb, m)
                           ELSE IF IsClosingKeyword(content) THEN OnClosing(vb, content, m)
                           ELSE IF IsMiddleKeyword(content) THEN OnMiddle(vb, m)
                           ELSE vb)
                          EXCEPT !.lastIndex = m.index + m.length]
                /\ pc' = pc
  /\ UNCHANGED <<workspace, reply, diagnostics, server, lines, lexer, parser>>

\* after the line loop: one error per frame left on the stack
UnclosedErrors(stack) == [i \in DOMAIN stack |-> UnclosedIfError(stack[i])]

VbFinish ==
  /\ pc = "vb_line"
  /\ vb.lineNum = Len(lines)
  /\ vb' = [vb EXCEPT !.errors = @ \o UnclosedErrors(vb.stack)]
  /\ pc' = "vb_done"
  /\ UNCHANGED <<workspace, reply, diagnostics, server, lines, lexer, parser>>

(***************************************************************************)
(* Lexer (lexer.ts)                                                        *)
(***************************************************************************)
TILDE_COMMANDS ==
  << <<"i","f">>, <<"i","f","d">>, <<"s","e","t">>, <<"s","e","t","i","f">>,
     <<"c","a","l","l">>, <<"c","a","l","l","i","f">>,
     <<"d","i","s","a","b","l","e","d">>, <<"o","n","c","e">> >>

getTildeTokenType(cmd) ==
  CASE cmd = <<"i","f">> -> "TILDE_IF"
    [] cmd = <<"i","f","d">> -> "TILDE_IFD"
    [] cmd = <<"s","e","t">> -> "TILDE_SET"
    [] cmd = <<"s","e","t","i","f">> -> "TILDE_SETIF"
    [] cmd = <<"c","a","l","l">> -> "TILDE_CALL"
    [] cmd = <<"c","a","l","l","i","f">> -> "TILDE_CALLIF"
    [] cmd = <<"d","i","s","a","b","l","e","d">> -> "TILDE_DISABLED"
    [] cmd = <<"o","n","c","e">> -> "TILDE_ONCE"
    [] OTHER -> "ERROR"

\* an absent optional field of Token.data is the falsy value of its type
NoData ==
  [choiceLevel |-> 0, jumpType |-> "", targetId |-> <<>>, choiceId |-> <<>>,
   storyId |-> <<>>, isHidden |-> FALSE, condition |-> <<>>]

Token(type, value, range, data) ==
  [type |-> type, value |-> value, range |-> range, data |-> data]

ParseError(message, arg, range, severity, code) ==
  [message |-> message, arg |-> arg, range |-> range, severity |-> severity, code |-> code]

NullPosition == [line |-> -1, character |-> -1]

LexerInit ==
  [tokens |-> <<>>, errors |-> <<>>, lineTypes |-> <<>>,
   inBlockComment |-> FALSE, blockCommentStart |-> NullPosition, lineNum |-> 0]

\* the parenthesis scan shared by validateConditionExpression and
\* validateSetExpression; message is the text of the "unexpected )" error
RECURSIVE ParenScan(_, _, _, _, _, _, _)
ParenScan(trimmed, i, parenCount, foundError, lineNum, startOffset, message) ==
  IF i >= Len(trimmed)
    THEN IF parenCount > 0
           THEN << ParseError("Unbalanced parentheses: missing )", <<>>,
                              makeRange(lineNum, startOffset, startOffset + Len(trimmed)),
                              "error", "unbalanced-parens") >>
           ELSE <<>>
    ELSE LET c == trimmed[i + 1]
             n == IF c = "(" THEN parenCount + 1
                  ELSE IF c = ")" THEN parenCount - 1 ELSE parenCount
         IN  IF n < 0 /\ ~foundError
               THEN << ParseError(message, <<>>,
                                  makeRange(lineNum, startOffset + i, startOffset + i + 1),
                                  "error", "unbalanced-parens") >>
                    \o ParenScan(trimmed, i + 1, 0, TRUE, lineNum, startOffset, message)
               ELSE ParenScan(trimmed, i + 1, n, foundError, lineNum, startOffset, message)

\* validateConditionExpression with the counter one too low from the start
validateConditionExpression_CountsFromBelow(expr, lineNum, startOffset) ==
  ParenScan(trim(expr), 0, -1, FALSE, lineNum, startOffset,
            "Unbalanced parentheses: unexpected )")

validateConditionExpression(expr, lineNum, startOffset) ==
  ParenScan(trim(expr), 0, 0, FALSE, lineNum, startOffset,
            "Unbalanced parentheses: unexpected )")

validateSetExpression(expr, lineNum, startOffset) ==
  ParenScan(trim(expr), 0, 0, FALSE, lineNum, startOffset,
            "Unbalanced parentheses in set expression")

\* validateTildeCommand with no shorthand for ~set and ~call
validateTildeCommand_NoShorthand(cmd, expression, lineNum, startIdx) ==
  IF cmd = <<"d","i","s","a","b","l","e","d">> \/ cmd = <<"o","n","c","e">>
    THEN <<>>
  ELSE IF trim(expression) = <<>>
    THEN << ParseError("~${cmd} requires a condition or expression", cmd,
                       makeRange(lineNum, startIdx, startIdx + Len(cmd) + 1),
                       "warning", "empty-tilde-expression") >>
  ELSE (IF cmd = <<"i","f">> \/ cmd = <<"i","f","d">>
          THEN validateConditionExpression(expression, lineNum, startIdx + Len(cmd) + 2)
          ELSE <<>>)
       \o
       (IF cmd = <<"s","e","t">> \/ cmd = <<"s","e","t","i","f">>
          THEN validateSetExpression(expression, lineNum, startIdx + Len(cmd) + 2)
          ELSE <<>>)

\* the errors validateTildeCommand pushes
validateTildeCommand(cmd, expression, lineNum, startIdx) ==
  IF cmd = <<"d","i","s","a","b","l","e","d">> \/ cmd = <<"o","n","c","e">>
    THEN <<>>
  ELSE IF trim(expression) = <<>>
    THEN IF cmd = <<"s","e","t">> \/ cmd = <<"c","a","l","l">>
           THEN <<>>
           ELSE << ParseError("~${cmd} requires a condition or expression", cmd,
                              makeRange(lineNum, startIdx, startIdx + Len(cmd) + 1),
                              "warning", "empty-tilde-expression") >>
  ELSE (IF cmd = <<"i","f">> \/ cmd = <<"i","f","d">>
          THEN validateConditionExpression(expression, lineNum, startIdx + Len(cmd) + 2)
          ELSE <<>>)
       \o
       (IF cmd = <<"s","e","t">> \/ cmd = <<"s","e","t","i","f">>
          THEN validateSetExpression(expression, lineNum, startIdx + Len(cmd) + 2)
          ELSE <<>>)

\* push helpers: a branch of tokenizeLine pushes tokens, errors and one line type
Emit(L, toks, errs, lineType) ==
  [L EXCEPT !.tokens = @ \o toks, !.errors = @ \o errs,
            !.lineTypes = Append(@, lineType)]

\* tokenizeLineContent: the text after a block comment terminator
tokenizeLineContent(lineNum, startOffset, content) ==
  IF trim(content) # <<>>
    THEN << Token("TEXT", content,
                  makeRange(lineNum, startOffset, startOffset + Len(content)), NoData) >>
    ELSE <<>>

\* LineInBlockComment returning early on the terminator, before the line type is pushed
LineInBlockComment_NoLineType(L, lineNum, line) ==
  LET endIdx == indexOf(line, CloseComment, 0)
      restOfLine == substringFrom(line, endIdx + 2)
  IN  IF endIdx # -1
        THEN [L EXCEPT !.inBlockComment = FALSE, !.blockCommentStart = NullPosition,
                       !.tokens = @ \o << Token("COMMENT_BLOCK_END", CloseComment,
                                                makeRange(lineNum, endIdx, endIdx + 2), NoData) >>
                                    \o tokenizeLineContent(lineNum, endIdx + 2, restOfLine)]
        ELSE Emit(L, <<>>, <<>>, "IN_BLOCK_COMMENT")

\* tokenizeLine, block comment continuation
LineInBlockComment(L, lineNum, line) ==
  LET endIdx == indexOf(line, CloseComment, 0)
      restOfLine == substringFrom(line, endIdx + 2)
  IN  IF endIdx # -1
        THEN Emit([L EXCEPT !.inBlockComment = FALSE, !.blockCommentStart = NullPosition],
                  << Token("COMMENT_BLOCK_END", CloseComment,
                           makeRange(lineNum, endIdx, endIdx + 2), NoData) >>
                  \o (IF trim(restOfLine) # <<>>
                        THEN tokenizeLineContent(lineNum, endIdx + 2, restOfLine)
                        ELSE <<>>),
                  <<>>, "COMMENT")
        ELSE Emit(L, <<>>, <<>>, "IN_BLOCK_COMMENT")

\* /^===\s+(\w+)/
StoryMatch(trimmed) ==
  LET sp == SpaceRun(trimmed, 3)
      w == WordRun(trimmed, 3 + sp)
  IN  IF startsWith(trimmed, <<"=","=","=">>) /\ sp >= 1 /\ w >= 1
        THEN [found |-> TRUE, whole |-> substring(trimmed, 0, 3 + sp + w),
              storyId |-> substring(trimmed, 3 + sp, 3 + sp + w)]
        ELSE [found |-> FALSE, whole |-> <<>>, storyId |-> <<>>]

\* /^~(\w+)\s*(.*)?$/
TildeMatch(trimmed) ==
  LET w == WordRun(trimmed, 1)
      sp == SpaceRun(trimmed, 1 + w)
  IN  IF startsWith(trimmed, <<"~">>) /\ w >= 1
        THEN [found |-> TRUE, word |-> substring(trimmed, 1, 1 + w),
              rest |-> substringFrom(trimmed, 1 + w + sp)]
        ELSE [found |-> FALSE, word |-> <<>>, rest |-> <<>>]

\* /^(>{1,3})(!?)\s*(.*)$/
JumpMatch(trimmed) ==
  LET run == CharRun(trimmed, ">", 0)
      arrows == IF run > 3 THEN 3 ELSE run
      bang == MatchAt(trimmed, <<"!">>, arrows)
      k == arrows + (IF bang THEN 1 ELSE 0)
      sp == SpaceRun(trimmed, k)
  IN  [found |-> run >= 1, arrows |-> arrows, bang |-> bang,
       rest |-> IF run >= 1 THEN substringFrom(trimmed, k + sp) ELSE <<>>]

\* /^=\s*(\w+)\s*$/
ChoiceIdMatch(trimmed) ==
  LET sp == SpaceRun(trimmed, 1)
      w == WordRun(trimmed, 1 + sp)
      sp2 == SpaceRun(trimmed, 1 + sp + w)
  IN  IF startsWith(trimmed, <<"=">>) /\ w >= 1 /\ 1 + sp + w + sp2 = Len(trimmed)
        THEN [found |-> TRUE, id |-> substring(trimmed, 1 + sp, 1 + sp + w)]
        ELSE [found |-> FALSE, id |-> <<>>]

\* /^(\*+)(=?)\s*(.*)$/
ChoiceMatch(trimmed) ==
  LET stars == CharRun(trimmed, "*", 0)
      hasId == MatchAt(trimmed, <<"=">>, stars)
      k == stars + (IF hasId THEN 1 ELSE 0)
      sp == SpaceRun(trimmed, k)
  IN  [found |-> stars >= 1, stars |-> stars, hasId |-> hasId,
       rest |-> IF stars >= 1 THEN substringFrom(trimmed, k + sp) ELSE <<>>]

\* tokenizeLine, tilde command branch
LineTilde(L, lineNum, line, trimmed) ==
  LET m == TildeMatch(trimmed)
      cmd == toLowerCase(m.word)
      startIdx == indexOf(line, <<"~">>, 0)
  IN  IF \E i \in DOMAIN TILDE_COMMANDS : TILDE_COMMANDS[i] = cmd
        THEN Emit(L,
                  << Token(getTildeTokenType(cmd), trimmed,
                           makeRange(lineNum, startIdx, Len(line)),
                           [NoData EXCEPT !.condition = m.rest]) >>,
                  validateTildeCommand(cmd, m.rest, lineNum, startIdx),
                  "TILDE_COMMAND")
        ELSE Emit(L,
                  << Token("ERROR", trimmed, makeRange(lineNum, startIdx, Len(line)), NoData) >>,
                  << ParseError("Unknown tilde command: ~${cmd}", cmd,
                                makeRange(lineNum, startIdx, startIdx + Len(cmd) + 1),
                                "error", "unknown-tilde-command") >>,
                  "TILDE_COMMAND")

\* tokenizeLine, jump branch
LineJump(L, lineNum, line, trimmed) ==
  LET m == JumpMatch(trimmed)
      target == trim(m.rest)
      startIdx == indexOf(line, <<">">>, 0)
      jumpType == IF m.arrows = 2 THEN "silent"
                  ELSE IF m.arrows = 3 \/ m.bang THEN "nobreak"
                  ELSE "normal"
  IN  Emit(L,
           << Token("JUMP", trimmed, makeRange(lineNum, startIdx, Len(line)),
                    [NoData EXCEPT !.jumpType = jumpType, !.targetId = target]) >>,
           <<>>, "JUMP")

\* tokenizeLine, choice marker branch
LineChoice(L, lineNum, line, trimmed) ==
  LET m == ChoiceMatch(trimmed)
      rest == trim(m.rest)
      startIdx == indexOf(line, <<"*">>, 0)
      range == makeRange(lineNum, startIdx, Len(line))
      idOnly == WordRun(rest, 0) >= 1
                /\ WordRun(rest, 0) + SpaceRun(rest, WordRun(rest, 0)) = Len(rest)
  IN  IF m.hasId
        THEN IF idOnly
               THEN Emit(L, << Token("CHOICE_ID", trimmed, range,
                                     [NoData EXCEPT !.choiceId = substring(rest, 0, WordRun(rest, 0)),
                                                    !.isHidden = TRUE,
                                                    !.choiceLevel = m.stars]) >>,
                         <<>>, "CHOICE")
             ELSE IF rest = <<>>
               THEN Emit(L, <<>>,
                         << ParseError("Hidden choice marker *= requires an ID", <<>>,
                                       range, "error", "missing-choice-id") >>,
                         "CHOICE")
             ELSE Emit(L, << Token("CHOICE_ID", trimmed, range,
                                   [NoData EXCEPT !.choiceId = FirstField(rest),
                                                  !.isHidden = TRUE,
                                                  !.choiceLevel = m.stars]) >>,
                       <<>>, "CHOICE")
        ELSE Emit(L, << Token("CHOICE", trimmed, range,
                              [NoData EXCEPT !.choiceLevel = m.stars]) >>,
                  <<>>, "CHOICE")

\* tokenizeLine outside a block comment, after the empty-line test
LineContent(L, lineNum, line, trimmed) ==
  LET blockStart == indexOf(line, OpenComment, 0)
      blockEnd == IF blockStart = -1 THEN -1 ELSE indexOf(line, CloseComment, blockStart + 2)
      story == StoryMatch(trimmed)
      headerIdx == indexOf(line, <<"=","=","=">>, 0)
      cid == ChoiceIdMatch(trimmed)
  IN  IF blockStart # -1 /\ blockEnd = -1
        THEN Emit([L EXCEPT !.inBlockComment = TRUE,
                            !.blockCommentStart = [line |-> lineNum, character |-> blockStart]],
                  << Token("COMMENT_BLOCK_START", OpenComment,
                           makeRange(lineNum, blockStart, blockStart + 2), NoData) >>,
                  <<>>, "COMMENT")
      ELSE IF startsWith(trimmed, LineCommentMark)
        THEN Emit(L, << Token("COMMENT_LINE", trimmed,
                              makeRange(lineNum, indexOf(line, LineCommentMark, 0), Len(line)),
                              NoData) >>,
                  <<>>, "COMMENT")
      ELSE IF startsWith(trimmed, <<"=","=","=","=">>)
        THEN Emit(L, << Token("COMMENT_LINE", trimmed, makeRange(lineNum, 0, Len(line)), NoData) >>,
                  <<>>, "COMMENT")
      ELSE IF story.found
        THEN Emit(L, << Token("STORY_HEADER", story.whole,
                              makeRange(lineNum, headerIdx, Len(line)),
                              [NoData EXCEPT !.storyId = story.storyId]) >>,
                  <<>>, "STORY_HEADER")
      ELSE IF startsWith(trimmed, <<"=","=","=">>)
        THEN Emit(L, << Token("ERROR", trimmed, makeRange(lineNum, headerIdx, Len(line)), NoData) >>,
                  << ParseError("Invalid story header. Expected: === storyID", <<>>,
                                makeRange(lineNum, headerIdx, Len(line)),
                                "error", "invalid-story-header") >>,
                  "STORY_HEADER")
      ELSE IF TildeMatch(trimmed).found
        THEN LineTilde(L, lineNum, line, trimmed)
      ELSE IF JumpMatch(trimmed).found
        THEN LineJump(L, lineNum, line, trimmed)
      ELSE IF cid.found /\ ~startsWith(trimmed, <<"=","=">>)
        THEN Emit(L, << Token("CHOICE_ID", trimmed,
                              makeRange(lineNum, indexOf(line, <<"=">>, 0), Len(line)),
                              [NoData EXCEPT !.choiceId = cid.id]) >>,
                  <<>>, "CHOICE_ID")
      ELSE IF ChoiceMatch(trimmed).found
        THEN LineChoice(L, lineNum, line, trimmed)
      ELSE IF trimmed = <<"-">>
        THEN Emit(L, << Token("PAGE_BREAK", <<"-">>,
                              makeRange(lineNum, indexOf(line, <<"-">>, 0),
                                        indexOf(line, <<"-">>, 0) + 1), NoData) >>,
                  <<>>, "PAGE_BREAK")
      ELSE Emit(L, << Token("TEXT", line, makeRange(lineNum, 0, Len(line)), NoData) >>,
                <<>>, "TEXT")

tokenizeLine(L, lineNum, line) ==
  IF L.inBlockComment
    THEN LineInBlockComment(L, lineNum, line)
  ELSE IF trim(line) = <<>>
    THEN Emit(L, <<>>, <<>>, "EMPTY")
  ELSE LineContent(L, lineNum, line, trim(line))

\* LexEnd with the unclosed-comment error ending where it starts
LexEnd_EndAtMarker(L, ls) ==
  LET lastLine == Len(ls) - 1
      lastChar == Len(ls[Len(ls)])
  IN  [L EXCEPT
        !.errors = IF L.inBlockComment /\ L.blockCommentStart # NullPosition
                     THEN Append(@, ParseError("Unclosed block comment", <<>>,
                                               [start |-> L.blockCommentStart,
                                                end |-> L.blockCommentStart],
                                               "error", "unclosed-comment"))
                     ELSE @,
        !.tokens = Append(@, Token("EOF", <<>>,
                                   [start |-> [line |-> lastLine, character |-> lastChar],
                                    end |-> [line |-> lastLine, character |-> lastChar]],
                                   NoData))]

\* tokenize, after the line loop: the unclosed-comment check and the EOF token
LexEnd(L, ls) ==
  LET lastLine == Len(ls) - 1
      lastChar == Len(ls[Len(ls)])
  IN  [L EXCEPT
        !.errors = IF L.inBlockComment /\ L.blockCommentStart # NullPosition
                     THEN Append(@, ParseError("Unclosed block comment", <<>>,
                                               [start |-> L.blockCommentStart,
                                                end |-> [line |-> lastLine, character |-> lastChar]],
                                               "error", "unclosed-comment"))
                     ELSE @,
        !.tokens = Append(@, Token("EOF", <<>>,
                                   [start |-> [line |-> lastLine, character |-> lastChar],
                                    end |-> [line |-> lastLine, character |-> lastChar]],
                                   NoData))]

RECURSIVE LexLines(_, _)
LexLines(L, ls) ==
  IF L.lineNum >= Len(ls) THEN L
  ELSE LexLines([tokenizeLine(L, L.lineNum, ls[L.lineNum + 1]) EXCEPT !.lineNum = L.lineNum + 1], ls)

\* tokenize(text)
tokenize(ls) == LexEnd(LexLines(LexerInit, ls), ls)

\* one iteration of the line loop of Lexer.tokenize
LexLine ==
  /\ pc = "lex_line"
  /\ lexer.lineNum < Len(lines)
  /\ lexer' = [tokenizeLine(lexer, lexer.lineNum, lines[lexer.lineNum + 1])
                 EXCEPT !.lineNum = lexer.lineNum + 1]
  /\ UNCHANGED <<workspace, reply, diagnostics, server, lines, pc, vb, parser>>

\* the end of Lexer.tokenize
LexFinish ==
  /\ pc = "lex_line"
  /\ lexer.lineNum = Len(lines)
  /\ lexer' = LexEnd(lexer, lines)
  /\ pc' = "lex_done"
  /\ UNCHANGED <<workspace, reply, diagnostics, server, lines, vb, parser>>

(***************************************************************************)
(* Parser (parser.ts)                                                      *)
(*                                                                         *)
(* ChoiceNode objects live in parser.nodes and are referred to by index    *)
(* (story.choices, choice.children, choiceStack, currentChoice); index 0   *)
(* is null.  story and the three locals of parseStory are fields of parser *)
(* while parseStory runs.                                                  *)
(***************************************************************************)
kwStart == <<"s","t","a","r","t">>
kwEnd == <<"e","n","d">>
kwBack == <<"b","a","c","k">>
kwBackonce == <<"b","a","c","k","o","n","c","e">>
kwStartonce == <<"s","t","a","r","t","o","n","c","e">>
kwUnknown == <<"u","n","k","n","o","w","n">>

ChoiceIdNode(id, range, isHidden) ==
  [type |-> "choice_id", id |-> id, range |-> range, isHidden |-> isHidden]

\* ChoiceNode.id when absent
NoChoiceId ==
  [type |-> "undefined", id |-> <<>>, range |-> makeRange(-1, -1, -1), isHidden |-> FALSE]

NoStory ==
  [type |-> "undefined", id |-> <<>>, range |-> makeRange(-1, -1, -1),
   headerRange |-> makeRange(-1, -1, -1), requirements |-> <<>>, mutations |-> <<>>,
   choices |-> <<>>, choiceIds |-> <<>>]

ParserInit ==
  [tokens |-> <<>>, errors |-> <<>>, current |-> 0, stories |-> <<>>,
   isDisabled |-> FALSE, nodes |-> <<>>,
   story |-> NoStory, currentChoice |-> 0, choiceStack |-> <<>>]

isAtEnd(P) ==
  P.current >= Len(P.tokens) \/ P.tokens[P.current + 1].type = "EOF"

peek(P) ==
  IF P.current < Len(P.tokens) THEN P.tokens[P.current + 1] ELSE P.tokens[Len(P.tokens)]

advance(P) == IF ~isAtEnd(P) THEN [P EXCEPT !.current = @ + 1] ELSE P

\* checkDisabled: ~disabled among the first tokens, before any story header
RECURSIVE DisabledFrom(_, _)
DisabledFrom(tokens, i) ==
  IF ~(i < Len(tokens) /\ i < 10) THEN FALSE
  ELSE IF tokens[i + 1].type = "STORY_HEADER" THEN FALSE
  ELSE IF tokens[i + 1].type = "TILDE_DISABLED" THEN TRUE
  ELSE DisabledFrom(tokens, i + 1)

\* checkDisabled looking through story headers
checkDisabled_ThroughHeaders(tokens) ==
  \E i \in 1..Len(tokens) : i <= 10 /\ tokens[i].type = "TILDE_DISABLED"

checkDisabled(tokens) == DisabledFrom(tokens, 0)

parseTildeCommand(token) ==
  LET m == TildeMatch(token.value)
  IN  [type |-> "tilde_command",
       command |-> IF m.found THEN toLowerCase(m.word) ELSE kwUnknown,
       expression |-> m.rest, range |-> token.range]

parseChoice(token) ==
  LET stars == CharRun(token.value, "*", 0)
      level == IF token.data.choiceLevel = 0 THEN 1 ELSE token.data.choiceLevel
  IN  [type |-> "choice", level |-> level,
       text |-> substringFrom(token.value, stars + SpaceRun(token.value, stars)),
       range |-> token.range, id |-> NoChoiceId, requirements |-> <<>>,
       mutations |-> <<>>, jumps |-> <<>>, children |-> <<>>, pageBreaks |-> <<>>]

parseChoiceId(token) ==
  ChoiceIdNode(IF token.data.choiceId = <<>> THEN kwUnknown ELSE token.data.choiceId,
               token.range, token.data.isHidden)

parseJump(token) ==
  [type |-> "jump", target |-> token.data.targetId, range |-> token.range,
   jumpType |-> IF token.data.jumpType = "" THEN "normal" ELSE token.data.jumpType]

\* Parser.parse up to the story loop: tokenize and checkDisabled
ParseBegin ==
  /\ pc = "parse_start"
  /\ lexer' = tokenize(lines)
  /\ parser' = [parser EXCEPT !.tokens = lexer'.tokens, !.errors = lexer'.errors,
                              !.isDisabled = checkDisabled(lexer'.tokens)]
  /\ pc' = "parse_doc"
  /\ UNCHANGED <<workspace, reply, diagnostics, server, lines, vb>>

\* BeginStory with one identifier map carried over from story to story
BeginStory_SharedIds(P) ==
  LET headerToken == peek(P)
      storyId == IF headerToken.data.storyId = <<>> THEN kwUnknown ELSE headerToken.data.storyId
  IN  [advance(P) EXCEPT
        !.story = [type |-> "story", id |-> storyId, range |-> headerToken.range,
                   headerRange |-> headerToken.range, requirements |-> <<>>,
                   mutations |-> <<>>, choices |-> <<>>,
                   choiceIds |-> IF Len(P.stories) > 0
                                   THEN (kwStart :> ChoiceIdNode(kwStart, headerToken.range, TRUE))
                                        @@ P.stories[Len(P.stories)].choiceIds
                                   ELSE (kwStart :> ChoiceIdNode(kwStart, headerToken.range, TRUE))],
        !.currentChoice = 0,
        !.choiceStack = <<>>]

\* parseStory up to its loop: the header token, the new story and its "start" entry
BeginStory(P) ==
  LET headerToken == peek(P)
      storyId == IF headerToken.data.storyId = <<>> THEN kwUnknown ELSE headerToken.data.storyId
  IN  [advance(P) EXCEPT
        !.story = [type |-> "story", id |-> storyId, range |-> headerToken.range,
                   headerRange |-> headerToken.range, requirements |-> <<>>,
                   mutations |-> <<>>, choices |-> <<>>,
                   choiceIds |-> (kwStart :> ChoiceIdNode(kwStart, headerToken.range, TRUE))],
        !.currentChoice = 0,
        !.choiceStack = <<>>]

\* DocStep leaving a TEXT token where it is
DocStep_TextStays(P) ==
  LET token == peek(P)
  IN  IF token.type = "STORY_HEADER" THEN BeginStory(P)
      ELSE IF token.type = "TILDE_DISABLED"
        THEN advance(IF P.current > 0
                       THEN [P EXCEPT !.errors = Append(@,
                               ParseError("~disabled should be on the first line of the file", <<>>,
                                          token.range, "warning", "misplaced-disabled"))]
                       ELSE P)
      ELSE IF token.type = "TEXT"
        THEN IF Len(P.stories) = 0 /\ ~P.isDisabled /\ trim(token.value) # <<>>
               THEN [P EXCEPT !.errors = Append(@,
                       ParseError("Content found before story header. Expected: === storyID",
                                  <<>>, token.range, "warning", "content-before-story"))]
               ELSE P
      ELSE advance(P)

\* one iteration of the document loop of Parser.parse
DocStep(P) ==
  LET token == peek(P)
  IN  IF token.type = "STORY_HEADER" THEN BeginStory(P)
      ELSE IF token.type = "TILDE_DISABLED"
        THEN advance(IF P.current > 0
                       THEN [P EXCEPT !.errors = Append(@,
                               ParseError("~disabled should be on the first line of the file", <<>>,
                                          token.range, "warning", "misplaced-disabled"))]
                       ELSE P)
      ELSE IF token.type = "TEXT"
        THEN advance(IF Len(P.stories) = 0 /\ ~P.isDisabled /\ trim(token.value) # <<>>
                       THEN [P EXCEPT !.errors = Append(@,
                               ParseError("Content found before story header. Expected: === storyID",
                                          <<>>, token.range, "warning", "content-before-story"))]
                       ELSE P)
      ELSE advance(P)

ParseDocStep ==
  /\ pc = "parse_doc"
  /\ IF isAtEnd(parser)
       THEN /\ pc' = "parse_validate"
            /\ parser' = parser
       ELSE /\ parser' = DocStep(parser)
            /\ pc' = IF peek(parser).type = "STORY_HEADER" THEN "parse_story" ELSE pc
  /\ UNCHANGED <<workspace, reply, diagnostics, server, lines, vb, lexer>>

(***************************************************************************)
(* Jump target validation (parser.ts)                                      *)
(***************************************************************************)
\* isSpecialJumpTarget with `startonce` missing from the list
isSpecialJumpTarget_NoStartonce(target) ==
  toLowerCase(target) \in {kwStart, kwEnd, kwBack, kwBackonce}

isSpecialJumpTarget(target) ==
  toLowerCase(target) \in {kwStart, kwEnd, kwBack, kwBackonce, kwStartonce}

RECURSIVE WordRunBack(_, _)
WordRunBack(s, k) ==
  IF k > 0 /\ IsWord(s[k]) THEN 1 + WordRunBack(s, k - 1) ELSE 0

RECURSIVE SpaceRunBack(_, _)
SpaceRunBack(s, k) ==
  IF k > 0 /\ IsSpace(s[k]) THEN 1 + SpaceRunBack(s, k - 1) ELSE 0

\* /^if\s+.+\s+\?\s+(\w+)\s*:\s*(\w+)$/, read from the end of the target:
\* the offsets are those of the second word, the colon, the first word and "?"
ConditionalMatch(target) ==
  LET n == Len(target)
      w2 == WordRunBack(target, n)
      colon == n - w2 - SpaceRunBack(target, n - w2) - 1
      e1 == colon - SpaceRunBack(target, colon)
      w1 == WordRunBack(target, e1)
      s0 == SpaceRunBack(target, e1 - w1)
      q == e1 - w1 - s0 - 1
      cond == substring(target, 2, q)
      ok == /\ w2 >= 1
            /\ colon >= 0 /\ MatchAt(target, <<":">>, colon)
            /\ w1 >= 1
            /\ s0 >= 1
            /\ q >= 0 /\ MatchAt(target, <<"?">>, q)
            /\ startsWith(target, <<"i","f">>)
            /\ Len(cond) >= 3
            /\ IsSpace(cond[1]) /\ IsSpace(cond[Len(cond)])
  IN  IF ok THEN [found |-> TRUE, target1 |-> substring(target, e1 - w1, e1),
                  target2 |-> substringFrom(target, n - w2)]
      ELSE [found |-> FALSE, target1 |-> <<>>, target2 |-> <<>>]

UnknownJumpTarget(target, jump) ==
  ParseError("Unknown jump target: ${target}", target, jump.range,
             "warning", "unknown-jump-target")

\* the check of one identifier against story.choiceIds and the special targets
CheckTarget(story, target, jump) ==
  IF ~(target \in DOMAIN story.choiceIds) /\ ~isSpecialJumpTarget(target)
    THEN << UnknownJumpTarget(target, jump) >>
    ELSE <<>>

\* ValidateJump checking only the first operand of a conditional target
ValidateJump_FirstOnly(story, jump) ==
  IF jump.target = <<>> THEN <<>>
  ELSE LET m == ConditionalMatch(jump.target)
       IN  IF m.found
             THEN CheckTarget(story, m.target1, jump)
             ELSE CheckTarget(story, FirstField(jump.target), jump)

\* the body of the loop over choice.jumps
ValidateJump(story, jump) ==
  IF jump.target = <<>> THEN <<>>
  ELSE LET m == ConditionalMatch(jump.target)
       IN  IF m.found
             THEN CheckTarget(story, m.target1, jump) \o CheckTarget(story, m.target2, jump)
             ELSE CheckTarget(story, FirstField(jump.target), jump)

RECURSIVE ValidateJumpList(_, _)
ValidateJumpList(story, jumps) ==
  IF jumps = <<>> THEN <<>>
  ELSE ValidateJump(story, Head(jumps)) \o ValidateJumpList(story, Tail(jumps))

\* validateChoice over a list of choices: each one's jumps, then its children
RECURSIVE ValidateChoices(_, _, _)
ValidateChoices(nodes, story, choices) ==
  IF choices = <<>> THEN <<>>
  ELSE ValidateJumpList(story, nodes[Head(choices)].jumps)
       \o ValidateChoices(nodes, story, nodes[Head(choices)].children)
       \o ValidateChoices(nodes, story, Tail(choices))

validateJumpsInStory(nodes, story) == ValidateChoices(nodes, story, story.choices)

RECURSIVE ValidateStories(_, _)
ValidateStories(nodes, stories) ==
  IF stories = <<>> THEN <<>>
  ELSE validateJumpsInStory(nodes, Head(stories)) \o ValidateStories(nodes, Tail(stories))

(***************************************************************************)
(* parseStory (parser.ts)                                                  *)
(***************************************************************************)
\* PlaceChoice popping one entry more than the level asks for
PlaceChoice_PopsParent(P, n, level, token) ==
  IF level = 1
    THEN [P EXCEPT !.story.choices = Append(@, n), !.choiceStack = <<n>>]
    ELSE LET popped == IF Len(P.choiceStack) >= level - 1
                         THEN SubSeq(P.choiceStack, 1, level - 2)
                         ELSE P.choiceStack
         IN  IF Len(popped) > 0
               THEN [P EXCEPT !.nodes[popped[Len(popped)]].children = Append(@, n),
                              !.choiceStack = Append(popped, n)]
               ELSE [P EXCEPT !.errors = Append(@,
                                ParseError("Choice level ${level} has no parent choice", <<>>,
                                           token.range, "error", "orphaned-choice")),
                              !.story.choices = Append(@, n),
                              !.choiceStack = Append(popped, n)]

\* case CHOICE: where the new choice node n goes, and the choice stack after it
PlaceChoice(P, n, level, token) ==
  IF level = 1
    THEN [P EXCEPT !.story.choices = Append(@, n), !.choiceStack = <<n>>]
    ELSE LET popped == IF Len(P.choiceStack) >= level
                         THEN SubSeq(P.choiceStack, 1, level - 1)
                         ELSE P.choiceStack
         IN  IF Len(popped) > 0
               THEN [P EXCEPT !.nodes[popped[Len(popped)]].children = Append(@, n),
                              !.choiceStack = Append(popped, n)]
               ELSE [P EXCEPT !.errors = Append(@,
                                ParseError("Choice level ${level} has no parent choice", <<>>,
                                           token.range, "error", "orphaned-choice")),
                              !.story.choices = Append(@, n),
                              !.choiceStack = Append(popped, n)]

StoryChoice(P, token) ==
  LET n == Len(P.nodes) + 1
      level == IF token.data.choiceLevel = 0 THEN 1 ELSE token.data.choiceLevel
      P1 == [P EXCEPT !.nodes = Append(@, parseChoice(token))]
  IN  [PlaceChoice(P1, n, level, token) EXCEPT !.currentChoice = n]

\* RegisterChoiceId with the map entry set on every registration
RegisterChoiceId_Overwrite(P, choiceIdNode, token) ==
  IF choiceIdNode.id \in DOMAIN P.story.choiceIds
    THEN [P EXCEPT !.errors = Append(@,
                     ParseError("Duplicate choice ID: ${choiceIdNode.id}", choiceIdNode.id,
                                token.range, "error", "duplicate-choice-id")),
                   !.story.choiceIds[choiceIdNode.id] = choiceIdNode]
    ELSE [P EXCEPT !.story.choiceIds = @ @@ (choiceIdNode.id :> choiceIdNode)]

\* case CHOICE_ID: registration of the identifier in story.choiceIds
RegisterChoiceId(P, choiceIdNode, token) ==
  IF choiceIdNode.id \in DOMAIN P.story.choiceIds
    THEN [P EXCEPT !.errors = Append(@,
            ParseError("Duplicate choice ID: ${choiceIdNode.id}", choiceIdNode.id,
                       token.range, "error", "duplicate-choice-id"))]
    ELSE [P EXCEPT !.story.choiceIds = @ @@ (choiceIdNode.id :> choiceIdNode)]

\* StoryChoiceId with a hidden choice's identifier replacing the map entry
StoryChoiceId_HiddenReplaces(P, token) ==
  LET choiceIdNode == parseChoiceId(token)
      P1 == IF choiceIdNode.isHidden
              THEN RegisterChoiceId_Overwrite(P, choiceIdNode, token)
              ELSE RegisterChoiceId(P, choiceIdNode, token)
      n == Len(P.nodes) + 1
      hiddenChoice ==
        [type |-> "choice",
         level |-> IF token.data.choiceLevel = 0 THEN 1 ELSE token.data.choiceLevel,
         text |-> <<>>, range |-> token.range, id |-> choiceIdNode,
         requirements |-> <<>>, mutations |-> <<>>, jumps |-> <<>>,
         children |-> <<>>, pageBreaks |-> <<>>]
  IN  IF choiceIdNode.isHidden
        THEN [P1 EXCEPT !.nodes = Append(@, hiddenChoice),
                        !.story.choices = Append(@, n),
                        !.choiceStack = <<n>>,
                        !.currentChoice = n]
      ELSE IF P.currentChoice # 0
        THEN [P1 EXCEPT !.nodes[P.currentChoice].id = choiceIdNode]
      ELSE P1

\* case CHOICE_ID: the hidden choice node, or the binding to the current choice
StoryChoiceId(P, token) ==
  LET choiceIdNode == parseChoiceId(token)
      P1 == RegisterChoiceId(P, choiceIdNode, token)
      n == Len(P.nodes) + 1
      hiddenChoice ==
        [type |-> "choice",
         level |-> IF token.data.choiceLevel = 0 THEN 1 ELSE token.data.choiceLevel,
         text |-> <<>>, range |-> token.range, id |-> choiceIdNode,
         requirements |-> <<>>, mutations |-> <<>>, jumps |-> <<>>,
         children |-> <<>>, pageBreaks |-> <<>>]
  IN  IF choiceIdNode.isHidden
        THEN [P1 EXCEPT !.nodes = Append(@, hiddenChoice),
                        !.story.choices = Append(@, n),
                        !.choiceStack = <<n>>,
                        !.currentChoice = n]
      ELSE IF P.currentChoice # 0
        THEN [P1 EXCEPT !.nodes[P.currentChoice].id = choiceIdNode]
      ELSE P1

\* StoryJump resolving the target as soon as the jump is read
StoryJump_Eager(P, token) ==
  IF P.currentChoice # 0
    THEN [P EXCEPT !.nodes[P.currentChoice].jumps = Append(@, parseJump(token)),
                   !.errors = @ \o ValidateJump(P.story, parseJump(token))]
    ELSE [P EXCEPT !.errors = Append(@,
            ParseError("Jump found outside of a choice", <<>>,
                       token.range, "warning", "orphaned-jump"))]

StoryJump(P, token) ==
  IF P.currentChoice # 0
    THEN [P EXCEPT !.nodes[P.currentChoice].jumps = Append(@, parseJump(token))]
    ELSE [P EXCEPT !.errors = Append(@,
            ParseError("Jump found outside of a choice", <<>>,
                       token.range, "warning", "orphaned-jump"))]

\* StoryToken with every requirement and mutation attached to the story
StoryToken_ToStory(P, token) ==
  IF token.type \in {"TILDE_IF", "TILDE_IFD"}
    THEN [P EXCEPT !.story.requirements = Append(@, parseTildeCommand(token))]
  ELSE IF token.type \in {"TILDE_SET", "TILDE_SETIF", "TILDE_CALL", "TILDE_CALLIF", "TILDE_ONCE"}
    THEN [P EXCEPT !.story.mutations = Append(@, parseTildeCommand(token))]
  ELSE IF token.type = "CHOICE" THEN StoryChoice(P, token)
  ELSE IF token.type = "CHOICE_ID" THEN StoryChoiceId(P, token)
  ELSE IF token.type = "JUMP" THEN StoryJump(P, token)
  ELSE IF token.type = "PAGE_BREAK"
    THEN IF P.currentChoice # 0
           THEN [P EXCEPT !.nodes[P.currentChoice].pageBreaks = Append(@, token.range)]
           ELSE P
  ELSE P

\* the switch of the story loop, after this.advance()
StoryToken(P, token) ==
  IF token.type \in {"TILDE_IF", "TILDE_IFD"}
    THEN IF P.currentChoice # 0
           THEN [P EXCEPT !.nodes[P.currentChoice].requirements = Append(@, parseTildeCommand(token))]
           ELSE [P EXCEPT !.story.requirements = Append(@, parseTildeCommand(token))]
  ELSE IF token.type \in {"TILDE_SET", "TILDE_SETIF", "TILDE_CALL", "TILDE_CALLIF", "TILDE_ONCE"}
    THEN IF P.currentChoice # 0
           THEN [P EXCEPT !.nodes[P.currentChoice].mutations = Append(@, parseTildeCommand(token))]
           ELSE [P EXCEPT !.story.mutations = Append(@, parseTildeCommand(token))]
  ELSE IF token.type = "CHOICE" THEN StoryChoice(P, token)
  ELSE IF token.type = "CHOICE_ID" THEN StoryChoiceId(P, token)
  ELSE IF token.type = "JUMP" THEN StoryJump(P, token)
  ELSE IF token.type = "PAGE_BREAK"
    THEN IF P.currentChoice # 0
           THEN [P EXCEPT !.nodes[P.currentChoice].pageBreaks = Append(@, token.range)]
           ELSE P
  ELSE P

\* parseStory after its loop: the story range and this.stories.push(story)
EndStory(P) ==
  LET lastToken == P.tokens[P.current]
  IN  [P EXCEPT !.stories = Append(@, [P.story EXCEPT !.range.end = lastToken.range.end]),
                !.story = NoStory, !.currentChoice = 0, !.choiceStack = <<>>]

\* one iteration of the loop of parseStory, or its exit
ParseStoryStep ==
  /\ pc = "parse_story"
  /\ IF isAtEnd(parser) \/ peek(parser).type = "STORY_HEADER"
       THEN /\ parser' = EndStory(parser)
            /\ pc' = "parse_doc"
       ELSE /\ parser' = StoryToken(advance(parser), peek(parser))
            /\ pc' = pc
  /\ UNCHANGED <<workspace, reply, diagnostics, server, lines, vb, lexer>>

\* validateJumpTargets, after the document loop, and the return of parse()
ParseValidate ==
  /\ pc = "parse_validate"
  /\ parser' = [parser EXCEPT !.errors = @ \o ValidateStories(parser.nodes, parser.stories)]
  /\ pc' = "parse_done"
  /\ UNCHANGED <<workspace, reply, diagnostics, server, lines, vb, lexer>>

(***************************************************************************)
(* analyzeDiagnostics (diagnostics.ts)                                     *)
(*                                                                         *)
(* The three try blocks run in sequence on one text: parse, whose steps    *)
(* are the parser's actions, validateBrackets, whose steps are the bracket *)
(* validator's actions, and additionalValidation.                          *)
(***************************************************************************)
\* getSeverity reduced to its default branch
getSeverity_DefaultOnly(severity) == "Warning"

getSeverity(severity) ==
  CASE severity = "error" -> "Error"
    [] severity = "warning" -> "Warning"
    [] severity = "info" -> "Information"
    [] severity = "hint" -> "Hint"
    [] OTHER -> "Warning"

convertRange(range) ==
  [start |-> [line |-> range.start.line, character |-> range.start.character],
   end |-> [line |-> range.end.line, character |-> range.end.character]]

Diagnostic(severity, range, message, arg, code) ==
  [severity |-> severity, range |-> range, message |-> message, arg |-> arg,
   source |-> "exoscript", code |-> code]

convertToDiagnostic(error) ==
  Diagnostic(getSeverity(error.severity), convertRange(error.range),
             error.message, error.arg, error.code)

ConvertAll(errors) == [j \in DOMAIN errors |-> convertToDiagnostic(errors[j])]

\* the diagnostic pushed when parseResult.document.isDisabled; it has no code
DisabledDiagnostic ==
  Diagnostic("Information", makeRange(0, 0, 9),
             "This file is disabled with ~disabled", <<>>, "")

\* the diagnostic of a catch block; e is the message of the caught exception
ExceptionDiagnostic(message, e, code) ==
  Diagnostic("Error", makeRange(0, 0, 1), message, e, code)

typoMap ==
  (<<"i","f","f">> :> <<"i","f">>)
  @@ (<<"f","i">> :> <<"i","f">>)
  @@ (<<"i","f","d","d">> :> <<"i","f","d">>)
  @@ (<<"s","e","t","t">> :> <<"s","e","t">>)
  @@ (<<"s","e","t","i","f","f">> :> <<"s","e","t","i","f">>)
  @@ (<<"c","a","l","l","l">> :> <<"c","a","l","l">>)
  @@ (<<"c","a","l","l","i","f","f">> :> <<"c","a","l","l","i","f">>)
  @@ (<<"d","i","s","a","b","l","e">> :> <<"d","i","s","a","b","l","e","d">>)
  @@ (<<"d","i","s","a","b","e","l","d">> :> <<"d","i","s","a","b","l","e","d">>)

validCommandWords ==
  { <<"i","f">>, <<"i","f","d">>, <<"s","e","t">>, <<"s","e","t","i","f">> }

validPrefixes ==
  { <<"v","a","r","_">>, <<"m","e","m","_">>,
    <<"h","o","g","_">>, <<"s","k","i","l","l","_">>,
    <<"l","o","v","e","_">>, <<"s","t","o","r","y","_">>,
    <<"c","a","l","l","_">>, <<"p","l","o","t","_">> }

knownTypes ==
  { <<"a","g","e">>, <<"s","e","a","s","o","n">>, <<"m","o","n","t","h">>,
    <<"j","o","b">>, <<"l","o","c","a","t","i","o","n">>, <<"c","h","a","r","a">>,
    <<"r","e","p","e","a","t">>, <<"r","a","n","d","o","m">>, <<"m","a","p","s","p","o","t">>,
    <<"b","i","o","m","e">>, <<"s","t","a","t","u","s">>, <<"o","n","c","e">>,
    <<"f","i","r","s","t">>, <<"b","g">>, <<"l","e","f","t">>,
    <<"r","i","g","h","t">>, <<"m","i","d","l","e","f","t">>, <<"m","i","d","r","i","g","h","t">>,
    <<"s","p","e","a","k","e","r">>, <<"s","p","r","i","t","e">> }

\* (line.match(/"/g) || []).length and the like
Occurrences(s, c) == Cardinality({k \in DOMAIN s : s[k] = c})

\* /^~(\w+)/ on the trimmed line, lower-cased; <<>> when there is no match
LintCommand(trimmed) ==
  IF startsWith(trimmed, <<"~">>) /\ WordRun(trimmed, 1) >= 1
    THEN toLowerCase(substring(trimmed, 1, 1 + WordRun(trimmed, 1)))
    ELSE <<>>

\* check 1: typos in tilde commands (typoMap[cmd] on the table's own keys;
\* the properties an object literal inherits, such as constructor, are left out)
LintTypo(lineNum, line, cmd) ==
  IF cmd \in DOMAIN typoMap
    THEN << Diagnostic("Error",
                       makeRange(lineNum, indexOf(line, <<"~">>, 0),
                                 indexOf(line, <<"~">>, 0) + Len(cmd) + 1),
                       "Did you mean ~${typoMap[cmd]}?", typoMap[cmd], "typo") >>
    ELSE <<>>

\* check 2: an odd number of double quotes
LintQuote(lineNum, line) ==
  IF Occurrences(line, "\"") % 2 # 0
    THEN << Diagnostic("Hint", makeRange(lineNum, 0, Len(line)),
                       "Unmatched quote - intentional if dialogue continues", <<>>,
                       "unmatched-quote") >>
    ELSE <<>>

\* check 3: /^(\*+)\s*$/
LintEmptyChoice(lineNum, line, trimmed) ==
  LET stars == CharRun(trimmed, "*", 0)
  IN  IF stars >= 1 /\ stars + SpaceRun(trimmed, stars) = Len(trimmed)
        THEN << Diagnostic("Warning",
                           makeRange(lineNum, indexOf(line, <<"*">>, 0), Len(line)),
                           "Empty choice text - use *= for hidden choices", <<>>,
                           "empty-choice") >>
        ELSE <<>>

\* check 4: a story header without ID
LintStoryId(lineNum, line, trimmed) ==
  IF trimmed = <<"=","=","=">>
    THEN << Diagnostic("Error",
                       makeRange(lineNum, indexOf(line, <<"=","=","=">>, 0),
                                 indexOf(line, <<"=","=","=">>, 0) + 3),
                       "Story header requires an ID: === storyID", <<>>,
                       "missing-story-id") >>
    ELSE <<>>

\* [a-z]+
RECURSIVE LowerRun(_, _)
LowerRun(s, k) ==
  IF k < Len(s) /\ s[k + 1] \in Range(LowerLetters) THEN 1 + LowerRun(s, k + 1) ELSE 0

\* line.match(/\b([a-z]+_\w+)\b/g) from column k on: the words made of
\* lower-case letters, an underscore and at least one more word character
RECURSIVE VarMatches(_, _)
VarMatches(line, k) ==
  IF k >= Len(line) THEN <<>>
  ELSE IF ~IsWord(line[k + 1]) THEN VarMatches(line, k + 1)
  ELSE LET w == WordRun(line, k)
           lower == LowerRun(line, k)
       IN  (IF lower >= 1 /\ lower + 1 < w /\ line[k + lower + 1] = "_"
              THEN << substring(line, k, k + w) >>
              ELSE <<>>)
           \o VarMatches(line, k + w)

\* check 5, for one matched name v
LintPrefix(lineNum, line, v) ==
  LET underscore == indexOf(v, <<"_">>, 0)
      prefix == substring(v, 0, underscore + 1)
      beforeUnderscore == substring(v, 0, underscore)
  IN  IF underscore >= 0 /\ prefix \notin validPrefixes
           /\ beforeUnderscore \notin knownTypes
        THEN << Diagnostic("Hint",
                           makeRange(lineNum, indexOf(line, v, 0), indexOf(line, v, 0) + Len(v)),
                           "Unknown variable prefix: ${prefix}", prefix, "unknown-prefix") >>
        ELSE <<>>

RECURSIVE LintPrefixes(_, _, _)
LintPrefixes(lineNum, line, vs) ==
  IF vs = <<>> THEN <<>>
  ELSE LintPrefix(lineNum, line, Head(vs)) \o LintPrefixes(lineNum, line, Tail(vs))

\* check 6: a blank inside a two-character operator of ~if / ~ifd
LintOperators(lineNum, line) ==
  LET eq == indexOf(line, <<"="," ","=">>, 0)
      amp == indexOf(line, <<"&"," ","&">>, 0)
      bar == indexOf(line, <<"|"," ","|">>, 0)
      op == IF amp >= 0 THEN amp ELSE bar
  IN  (IF eq >= 0
         THEN << Diagnostic("Warning", makeRange(lineNum, eq, eq + 3),
                            "Space in operator - did you mean == or =?", <<>>,
                            "spaced-operator") >>
         ELSE <<>>)
      \o
      (IF amp >= 0 \/ bar >= 0
         THEN << Diagnostic("Warning", makeRange(lineNum, op, op + 3),
                            "Space in operator - did you mean ${correct}?",
                            IF amp >= 0 THEN <<"&","&">> ELSE <<"|","|">>,
                            "spaced-operator") >>
         ELSE <<>>)

\* the body of the line loop of additionalValidation
LintLine(lineNum, line) ==
  LET trimmed == trim(line)
      cmd == LintCommand(trimmed)
  IN  LintTypo(lineNum, line, cmd)
      \o LintQuote(lineNum, line)
      \o LintEmptyChoice(lineNum, line, trimmed)
      \o LintStoryId(lineNum, line, trimmed)
      \o (IF cmd \in validCommandWords
            THEN LintPrefixes(lineNum, line, VarMatches(line, 0))
            ELSE <<>>)
      \o (IF cmd \in {<<"i","f">>, <<"i","f","d">>}
            THEN LintOperators(lineNum, line)
            ELSE <<>>)

\* what additionalValidation pushes for the lines from lineNum on
RECURSIVE LintLines(_, _)
LintLines(ls, lineNum) ==
  IF lineNum >= Len(ls) THEN <<>>
  ELSE LintLine(lineNum, ls[lineNum + 1]) \o LintLines(ls, lineNum + 1)

additionalValidation(ls) == LintLines(ls, 0)

\* the disabled diagnostic pushed for every document
DisabledDiagnostics_Always(isDisabled) == << DisabledDiagnostic >>

\* if (parseResult.document.isDisabled) diagnostics.push(...)
DisabledDiagnostics(isDisabled) ==
  IF isDisabled THEN << DisabledDiagnostic >> ELSE <<>>

\* first try block, once parse() has returned
AdParsed ==
  /\ pc = "parse_done"
  /\ diagnostics' = diagnostics \o ConvertAll(parser.errors)
                      \o DisabledDiagnostics(parser.isDisabled)
  /\ pc' = "vb_line"
  /\ UNCHANGED <<workspace, reply, lines, vb, lexer, parser, server>>

\* the bracket errors put in front of the list
AdBrackets_InFront ==
  /\ pc = "vb_done"
  /\ diagnostics' = ConvertAll(vb.errors) \o diagnostics
  /\ pc' = "ad_lint"
  /\ UNCHANGED <<workspace, reply, lines, vb, lexer, parser, server>>

\* second try block, once validateBrackets() has returned
AdBrackets ==
  /\ pc = "vb_done"
  /\ diagnostics' = diagnostics \o ConvertAll(vb.errors)
  /\ pc' = "ad_lint"
  /\ UNCHANGED <<workspace, reply, lines, vb, lexer, parser, server>>

\* third try block and the return of analyzeDiagnostics
AdLint ==
  /\ pc = "ad_lint"
  /\ diagnostics' = diagnostics \o additionalValidation(lines)
  /\ pc' = "ad_done"
  /\ UNCHANGED <<workspace, reply, lines, vb, lexer, parser, server>>

\* where an exception was thrown, as the message it carries
InTokenize == <<"t","o","k","e","n","i","z","e">>
InParser == <<"P","a","r","s","e","r">>
InValidateBrackets == <<"v","a","l","i","d","a","t","e","B","r","a","c","k","e","t","s">>
InAdditionalValidation == <<"l","i","n","t">>

\* parse() throws, in the lexer (before the first token is read by the
\* parser) or in the parser: the catch of the first try block. The errors
\* parse() had collected are lost with its result.
AdParseThrows ==
  /\ pc \in {"parse_start", "parse_doc", "parse_story", "parse_validate"}
  /\ diagnostics' = Append(diagnostics,
                           ExceptionDiagnostic("Parser error: ${e.message}",
                                               IF pc = "parse_start" THEN InTokenize ELSE InParser,
                                               "parser-exception"))
  /\ pc' = "vb_line"
  /\ UNCHANGED <<workspace, reply, lines, vb, lexer, parser, server>>

\* validateBrackets() throws: the catch of the second try block
AdBracketsThrows ==
  /\ pc \in {"vb_line", "vb_scan"}
  /\ diagnostics' = Append(diagnostics,
                           ExceptionDiagnostic("Bracket validation error: ${e.message}",
                                               InValidateBrackets, "bracket-exception"))
  /\ pc' = "ad_lint"
  /\ UNCHANGED <<workspace, reply, lines, vb, lexer, parser, server>>

\* additionalValidation() throws after it has pushed some of its
\* diagnostics: the catch of the third try block
AdLintThrows ==
  /\ pc = "ad_lint"
  /\ \E k \in 0..Len(additionalValidation(lines)) :
       diagnostics' = diagnostics \o SubSeq(additionalValidation(lines), 1, k)
                        \o << ExceptionDiagnostic("Validation error: ${e.message}",
                                                  InAdditionalValidation,
                                                  "validation-exception") >>
  /\ pc' = "ad_done"
  /\ UNCHANGED <<workspace, reply, lines, vb, lexer, parser, server>>

(***************************************************************************)
(* Server (server.ts)                                                      *)
(*                                                                         *)
(* One open document: lines is its text. A handler runs to completion      *)
(* before the next message is read (pc = "idle"); validateTextDocument is  *)
(* suspended once, at its await, and its analysis then runs the steps of   *)
(* analyzeDiagnostics on the text the document has at that moment.         *)
(***************************************************************************)
\* the value parse() returns; nodes holds the choice objects of the stories
ParserResult(P) ==
  [document |-> [type |-> "document", stories |-> P.stories, errors |-> P.errors,
                 isDisabled |-> P.isDisabled],
   errors |-> P.errors, nodes |-> P.nodes]

\* Parser.parse from the document loop on
RECURSIVE ParseLoop(_, _)
ParseLoop(P, inStory) ==
  IF inStory
    THEN IF isAtEnd(P) \/ peek(P).type = "STORY_HEADER"
           THEN ParseLoop(EndStory(P), FALSE)
           ELSE ParseLoop(StoryToken(advance(P), peek(P)), TRUE)
    ELSE IF isAtEnd(P)
           THEN [P EXCEPT !.errors = @ \o ValidateStories(P.nodes, P.stories)]
           ELSE ParseLoop(DocStep(P), peek(P).type = "STORY_HEADER")

\* parse(text)
parse(ls) ==
  LET L == tokenize(ls)
  IN  ParserResult(ParseLoop([ParserInit EXCEPT !.tokens = L.tokens, !.errors = L.errors,
                                                !.isDisabled = checkDisabled(L.tokens)],
                             FALSE))

\* no entry of documentParseCache for the document, no result returned
NoParseResult ==
  [document |-> [type |-> "undefined", stories |-> <<>>, errors |-> <<>>,
                 isDisabled |-> FALSE],
   errors |-> <<>>, nodes |-> <<>>]

MaxProblemsSetting == 2
MaxAwaiting == 2

defaultSettings == 100

\* the values of maxNumberOfProblems a client configures
SettingsValues == 0..MaxProblemsSetting \cup {defaultSettings}

\* no entry of documentSettings for the document
NoSettings == -1

Consumers == {"completion", "hover", "definition", "documentSymbol", "foldingRanges"}

\* awaiting: the settings the suspended calls of validateTextDocument will
\* resume with; settings: those of the call that is analysing; sent: the
\* diagnostics last published; response: the parse result the request just
\* handled has given to its consumer
ServerInit ==
  [open |-> FALSE, documentParseCache |-> NoParseResult,
   hasConfigurationCapability |-> FALSE, globalSettings |-> defaultSettings,
   documentSettings |-> NoSettings, awaiting |-> <<>>, settings |-> defaultSettings,
   sent |-> <<>>, response |-> NoParseResult]

\* Array.prototype.slice(start, end)
slice(s, start, end) ==
  LET rel(k) == IF k < 0 THEN (IF Len(s) + k < 0 THEN 0 ELSE Len(s) + k)
                ELSE (IF k > Len(s) THEN Len(s) ELSE k)
  IN  SubSeq(s, rel(start) + 1, rel(end))

\* getParseResult: the cached result, or a new one
getParseResult(S, ls) ==
  IF S.documentParseCache # NoParseResult THEN S.documentParseCache ELSE parse(ls)

\* getDocumentSettings: the settings its promise resolves to and the entry
\* of documentSettings it leaves, for every answer of the client
getDocumentSettings(S) ==
  IF ~S.hasConfigurationCapability
    THEN {[value |-> S.globalSettings, documentSettings |-> S.documentSettings]}
  ELSE IF S.documentSettings # NoSettings
    THEN {[value |-> S.documentSettings, documentSettings |-> S.documentSettings]}
  ELSE {[value |-> v, documentSettings |-> v] : v \in SettingsValues}

\* validateTextDocument up to its await, with the outcome r of getDocumentSettings
CallValidate(S, r) ==
  [S EXCEPT !.documentSettings = r.documentSettings, !.awaiting = Append(@, r.value)]

\* the limit on the number of problems taken one too high
LimitProblems_OneMore(diags, maxNumberOfProblems) ==
  IF Len(diags) > maxNumberOfProblems
    THEN slice(diags, 0, maxNumberOfProblems + 1)
    ELSE diags

\* validateTextDocument: limit the number of problems
LimitProblems(diags, maxNumberOfProblems) ==
  IF Len(diags) > maxNumberOfProblems
    THEN slice(diags, 0, maxNumberOfProblems)
    ELSE diags

\* the texts of the document the server has open: no diagnostic, two, three
ServerDocs ==
  { << <<"=","=","="," ","s">> >>,
    << <<"~","i","f","f"," ","x">> >>,
    << <<"~","f","o","o">>, <<"[","e","n","d","i","f","]">> >> }

\* connection.onInitialize
Initialize ==
  /\ pc = "start"
  /\ \E capability \in BOOLEAN :
       server' = [server EXCEPT !.hasConfigurationCapability = capability]
  /\ pc' = "idle"
  /\ UNCHANGED <<workspace, reply, lines, vb, lexer, parser, diagnostics>>

\* didOpen with no call of validateTextDocument
DidOpen_Unvalidated ==
  /\ pc = "idle"
  /\ ~server.open
  /\ Len(server.awaiting) < MaxAwaiting
  /\ \E text \in ServerDocs :
       /\ lines' = text
       /\ server' = [server EXCEPT !.open = TRUE,
                                   !.documentParseCache = NoParseResult,
                                   !.response = NoParseResult]
  /\ UNCHANGED <<workspace, reply, pc, vb, lexer, parser, diagnostics>>

\* textDocument/didOpen: the document is created, then onDidChangeContent
DidOpen ==
  /\ pc = "idle"
  /\ ~server.open
  /\ Len(server.awaiting) < MaxAwaiting
  /\ \E text \in ServerDocs, r \in getDocumentSettings(server) :
       /\ lines' = text
       /\ server' = CallValidate([server EXCEPT !.open = TRUE,
                                                !.documentParseCache = NoParseResult,
                                                !.response = NoParseResult], r)
  /\ UNCHANGED <<workspace, reply, pc, vb, lexer, parser, diagnostics>>

\* onDidChangeContent leaving the parse cache as it is
DidChangeContent_KeepsCache ==
  /\ pc = "idle"
  /\ server.open
  /\ Len(server.awaiting) < MaxAwaiting
  /\ \E text \in ServerDocs, r \in getDocumentSettings(server) :
       /\ lines' = text
       /\ server' = CallValidate([server EXCEPT !.response = NoParseResult], r)
  /\ UNCHANGED <<workspace, reply, pc, vb, lexer, parser, diagnostics>>

\* textDocument/didChange: the document is updated, then onDidChangeContent
DidChangeContent ==
  /\ pc = "idle"
  /\ server.open
  /\ Len(server.awaiting) < MaxAwaiting
  /\ \E text \in ServerDocs, r \in getDocumentSettings(server) :
       /\ lines' = text
       /\ server' = CallValidate([server EXCEPT !.documentParseCache = NoParseResult,
                                                !.response = NoParseResult], r)
  /\ UNCHANGED <<workspace, reply, pc, vb, lexer, parser, diagnostics>>

\* textDocument/didClose: onDidClose
DidClose ==
  /\ pc = "idle"
  /\ server.open
  /\ server' = [server EXCEPT !.open = FALSE, !.documentSettings = NoSettings,
                              !.documentParseCache = NoParseResult,
                              !.response = NoParseResult]
  /\ UNCHANGED <<workspace, reply, lines, pc, vb, lexer, parser, diagnostics>>

\* connection.onDidChangeConfiguration
DidChangeConfiguration ==
  /\ pc = "idle"
  /\ server.open => Len(server.awaiting) < MaxAwaiting
  /\ \E exoscript \in SettingsValues :
       LET S == IF server.hasConfigurationCapability
                  THEN [server EXCEPT !.documentSettings = NoSettings,
                                      !.response = NoParseResult]
                  ELSE [server EXCEPT !.globalSettings = exoscript,
                                      !.response = NoParseResult]
       IN  IF server.open
             THEN \E r \in getDocumentSettings(S) : server' = CallValidate(S, r)
             ELSE server' = S
  /\ UNCHANGED <<workspace, reply, lines, pc, vb, lexer, parser, diagnostics>>

\* validateTextDocument resumes after its await: getText() and the call of
\* analyzeDiagnostics. Promise.resolve(globalSettings) resumes the calls in
\* the order they were made; the answers of the client to
\* workspace/configuration requests come in any order
ValidateResume ==
  /\ pc = "idle"
  /\ server.awaiting # <<>>
  /\ \E i \in DOMAIN server.awaiting :
       /\ i = 1 \/ server.hasConfigurationCapability
       /\ server' = [server EXCEPT !.settings = server.awaiting[i],
                                   !.awaiting = SubSeq(@, 1, i - 1) \o SubSeq(@, i + 1, Len(@)),
                                   !.response = NoParseResult]
  /\ vb' = VbInit
  /\ lexer' = LexerInit
  /\ parser' = ParserInit
  /\ diagnostics' = <<>>
  /\ pc' = "parse_start"
  /\ UNCHANGED <<workspace, reply, lines>>

\* validateTextDocument once analyzeDiagnostics has returned: the limit and
\* connection.sendDiagnostics; the locals of the call are dropped
SendDiagnostics ==
  /\ pc = "ad_done"
  /\ server' = [server EXCEPT !.sent = LimitProblems(diagnostics, server.settings),
                              !.settings = defaultSettings]
  /\ vb' = VbInit
  /\ lexer' = LexerInit
  /\ parser' = ParserInit
  /\ diagnostics' = <<>>
  /\ pc' = "idle"
  /\ UNCHANGED <<workspace, reply, lines>>

\* onCompletion, onHover, onDefinition, onDocumentSymbol, onFoldingRanges up
\* to the parse result they work on
ConsumerRequest(consumer) ==
  /\ pc = "idle"
  /\ server' = IF ~server.open
                 THEN [server EXCEPT !.response = NoParseResult]
                 ELSE [server EXCEPT !.documentParseCache = getParseResult(server, lines),
                                     !.response = getParseResult(server, lines)]
  /\ UNCHANGED <<workspace, reply, lines, pc, vb, lexer, parser, diagnostics>>

(***************************************************************************)
(* Server (server.ts): several documents                                   *)
(*                                                                         *)
(* The maps of the server keyed by document uri, for a client without the  *)
(* configuration capability: getDocumentSettings resolves to               *)
(* globalSettings. After its await validateTextDocument runs to completion *)
(* on the text its document has at that moment.                            *)
(***************************************************************************)
\* validateBrackets: the while loop over the bracket expressions of one line
RECURSIVE VbScan(_)
VbScan(v) ==
  LET m == BracketExec(v.line, v.lastIndex)
      content == toLowerCase(trim(m.inner))
  IN  IF ~m.found THEN v
      ELSE VbScan([(IF IsOpeningKeyword(content) THEN OnOpening(v, m)
                    ELSE IF IsClosingKeyword(content) THEN OnClosing(v, content, m)
                    ELSE IF IsMiddleKeyword(content) THEN OnMiddle(v, m)
                    ELSE v)
                   EXCEPT !.lastIndex = m.index + m.length])

\* validateBrackets: the loop over the lines
RECURSIVE VbLines(_, _)
VbLines(v, ls) ==
  IF v.lineNum >= Len(ls) THEN v
  ELSE LET r == StripComments(ls[v.lineNum + 1], v.inBlockComment)
       IN  IF r.skip
             THEN VbLines([v EXCEPT !.lineNum = @ + 1], ls)
             ELSE VbLines([VbScan([v EXCEPT !.inBlockComment = r.inBlockComment,
                                            !.line = r.line, !.lastIndex = 0])
                           EXCEPT !.lineNum = @ + 1], ls)

\* validateBrackets(text)
validateBrackets(ls) ==
  LET v == VbLines(VbInit, ls)
  IN  v.errors \o UnclosedErrors(v.stack)

\* analyzeDiagnostics(text), no stage throwing
analyzeDiagnostics(ls) ==
  ConvertAll(parse(ls).errors)
    \o DisabledDiagnostics(parse(ls).document.isDisabled)
    \o ConvertAll(validateBrackets(ls))
    \o additionalValidation(ls)

Uris == {"a", "b"}

\* documents: the TextDocument objects, which a suspended validation keeps
\* after the document is closed; awaiting: the documents of the suspended
\* calls of validateTextDocument; sent: the diagnostics last published for a
\* document; handled: the message handled last
WorkspaceInit ==
  [documents |-> [u \in Uris |-> [open |-> FALSE, text |-> << <<>> >>]],
   documentParseCache |-> [u \in Uris |-> NoParseResult],
   awaiting |-> <<>>,
   sent |-> [u \in Uris |-> <<>>],
   handled |-> [kind |-> "none", uri |-> ""]]

\* textDocument/didOpen: the document is created, then onDidChangeContent
OpenDocument(uri) ==
  /\ pc = "idle"
  /\ ~workspace.documents[uri].open
  /\ Len(workspace.awaiting) < MaxAwaiting
  /\ \E text \in ServerDocs :
       workspace' = [workspace EXCEPT !.documents[uri] = [open |-> TRUE, text |-> text],
                                      !.documentParseCache[uri] = NoParseResult,
                                      !.awaiting = Append(@, uri),
                                      !.handled = [kind |-> "open", uri |-> uri]]
  /\ UNCHANGED <<reply, lines, pc, vb, lexer, parser, diagnostics, server>>

\* textDocument/didChange: the document is updated, then onDidChangeContent
ChangeDocument(uri) ==
  /\ pc = "idle"
  /\ workspace.documents[uri].open
  /\ Len(workspace.awaiting) < MaxAwaiting
  /\ \E text \in ServerDocs :
       workspace' = [workspace EXCEPT !.documents[uri].text = text,
                                      !.documentParseCache[uri] = NoParseResult,
                                      !.awaiting = Append(@, uri),
                                      !.handled = [kind |-> "change", uri |-> uri]]
  /\ UNCHANGED <<reply, lines, pc, vb, lexer, parser, diagnostics, server>>

\* onDidClose emptying the whole parse cache
CloseDocument_ClearsCache(uri) ==
  /\ pc = "idle"
  /\ workspace.documents[uri].open
  /\ workspace' = [workspace EXCEPT !.documents[uri].open = FALSE,
                                    !.documentParseCache = [u \in Uris |-> NoParseResult],
                                    !.handled = [kind |-> "close", uri |-> uri]]
  /\ UNCHANGED <<reply, lines, pc, vb, lexer, parser, diagnostics, server>>

\* textDocument/didClose: onDidClose
CloseDocument(uri) ==
  /\ pc = "idle"
  /\ workspace.documents[uri].open
  /\ workspace' = [workspace EXCEPT !.documents[uri].open = FALSE,
                                    !.documentParseCache[uri] = NoParseResult,
                                    !.handled = [kind |-> "close", uri |-> uri]]
  /\ UNCHANGED <<reply, lines, pc, vb, lexer, parser, diagnostics, server>>

\* validateTextDocument from its await to connection.sendDiagnostics
ResumeValidation ==
  /\ pc = "idle"
  /\ workspace.awaiting # <<>>
  /\ LET uri == Head(workspace.awaiting)
     IN  workspace' = [workspace EXCEPT
                         !.awaiting = Tail(@),
                         !.sent[uri] = LimitProblems(
                                         analyzeDiagnostics(workspace.documents[uri].text),
                                         defaultSettings),
                         !.handled = [kind |-> "validate", uri |-> uri]]
  /\ UNCHANGED <<reply, lines, pc, vb, lexer, parser, diagnostics, server>>

\* onCompletion, onHover, onDefinition, onDocumentSymbol, onFoldingRanges up
\* to the parse result they work on: documents.get and getParseResult
RequestDocument(uri) ==
  /\ pc = "idle"
  /\ workspace.documents[uri].open
  /\ workspace' = [workspace EXCEPT
                     !.documentParseCache[uri] =
                        IF @ # NoParseResult THEN @ ELSE parse(workspace.documents[uri].text),
                     !.handled = [kind |-> "request", uri |-> uri]]
  /\ UNCHANGED <<reply, lines, pc, vb, lexer, parser, diagnostics, server>>

(***************************************************************************)
(* Folding ranges (folding.ts)                                             *)
(***************************************************************************)
FoldingRange(startLine, endLine, kind) ==
  [startLine |-> startLine, endLine |-> endLine, kind |-> kind]

\* the loop over choice.children that finds the end line
RECURSIVE ChildrenEndLine(_, _, _)
ChildrenEndLine(nodes, children, endLine) ==
  IF children = <<>> THEN endLine
  ELSE ChildrenEndLine(nodes, Tail(children),
                       IF nodes[Head(children)].range.end.line > endLine
                         THEN nodes[Head(children)].range.end.line
                         ELSE endLine)

\* addChoiceFoldingRanges, and its calls on a list of choices in order
RECURSIVE addChoiceFoldingRanges(_, _), ChoicesFoldingRanges(_, _)
addChoiceFoldingRanges(nodes, choice) ==
  IF Len(nodes[choice].children) > 0
    THEN LET endLine == ChildrenEndLine(nodes, nodes[choice].children,
                                        nodes[choice].range.end.line)
         IN  (IF endLine > nodes[choice].range.start.line
                THEN << FoldingRange(nodes[choice].range.start.line, endLine, "region") >>
                ELSE <<>>)
             \o ChoicesFoldingRanges(nodes, nodes[choice].children)
    ELSE <<>>

ChoicesFoldingRanges(nodes, choices) ==
  IF choices = <<>> THEN <<>>
  ELSE addChoiceFoldingRanges(nodes, Head(choices)) \o ChoicesFoldingRanges(nodes, Tail(choices))

\* the loop over parseResult.document.stories
RECURSIVE StoriesFoldingRanges(_, _)
StoriesFoldingRanges(nodes, stories) ==
  IF stories = <<>> THEN <<>>
  ELSE LET story == Head(stories)
       IN  (IF story.range.end.line > story.range.start.line
              THEN << FoldingRange(story.range.start.line, story.range.end.line, "region") >>
              ELSE <<>>)
           \o ChoicesFoldingRanges(nodes, story.choices)
           \o StoriesFoldingRanges(nodes, Tail(stories))

\* addBlockCommentRanges from line i (zero-based) on
RECURSIVE addBlockCommentRanges(_, _, _, _)
addBlockCommentRanges(ls, i, inBlockComment, blockStart) ==
  IF i >= Len(ls) THEN <<>>
  ELSE LET line == ls[i + 1]
           startIdx == indexOf(line, OpenComment, 0)
       IN  IF ~inBlockComment
             THEN addBlockCommentRanges(ls, i + 1,
                    startIdx # -1 /\ indexOf(line, CloseComment, startIdx + 2) = -1,
                    IF startIdx # -1 /\ indexOf(line, CloseComment, startIdx + 2) = -1
                      THEN i ELSE blockStart)
           ELSE IF indexOf(line, CloseComment, 0) # -1
             THEN (IF i > blockStart THEN << FoldingRange(blockStart, i, "comment") >> ELSE <<>>)
                  \o addBlockCommentRanges(ls, i + 1, FALSE, blockStart)
           ELSE addBlockCommentRanges(ls, i + 1, TRUE, blockStart)

\* the while loop of addBracketBlockRanges over the bracket expressions of
\* one line: the frame stack and the ranges after it
RECURSIVE BracketBlockScan(_, _, _, _, _)
BracketBlockScan(line, lastIndex, lineNum, stack, ranges) ==
  LET m == BracketExec(line, lastIndex)
      content == toLowerCase(trim(m.inner))
  IN  IF ~m.found THEN [stack |-> stack, ranges |-> ranges]
      ELSE IF IsOpeningKeyword(content)
        THEN BracketBlockScan(line, m.index + m.length, lineNum, Append(stack, lineNum), ranges)
      ELSE IF IsClosingKeyword(content) /\ Len(stack) > 0
        THEN BracketBlockScan(line, m.index + m.length, lineNum,
                              SubSeq(stack, 1, Len(stack) - 1),
                              IF lineNum > stack[Len(stack)]
                                THEN Append(ranges, FoldingRange(stack[Len(stack)], lineNum, "region"))
                                ELSE ranges)
      ELSE BracketBlockScan(line, m.index + m.length, lineNum, stack, ranges)

\* addBracketBlockRanges from line lineNum (zero-based) on
RECURSIVE addBracketBlockRanges(_, _, _, _)
addBracketBlockRanges(ls, lineNum, stack, inBlockComment) ==
  IF lineNum >= Len(ls) THEN <<>>
  ELSE LET r == StripComments(ls[lineNum + 1], inBlockComment)
           scan == BracketBlockScan(r.line, 0, lineNum, stack, <<>>)
       IN  IF r.skip
             THEN addBracketBlockRanges(ls, lineNum + 1, stack, TRUE)
             ELSE scan.ranges \o addBracketBlockRanges(ls, lineNum + 1, scan.stack, r.inBlockComment)

getFoldingRanges(ls, parseResult) ==
  StoriesFoldingRanges(parseResult.nodes, parseResult.document.stories)
    \o addBlockCommentRanges(ls, 0, FALSE, 0)
    \o addBracketBlockRanges(ls, 0, <<>>, FALSE)

\* connection.onFoldingRanges on the parse result of the document
FoldingRanges ==
  /\ pc = "parse_done"
  /\ reply' = getFoldingRanges(lines, ParserResult(parser))
  /\ pc' = "replied"
  /\ UNCHANGED <<workspace, lines, vb, lexer, parser, diagnostics, server>>

(***************************************************************************)
(* Completion (completion.ts)                                              *)
(*                                                                         *)
(* A completion item is its label, kind and detail.                        *)
(***************************************************************************)
CompletionItem(label, kind, detail) == [label |-> label, kind |-> kind, detail |-> detail]

TILDE_COMPLETIONS ==
  << CompletionItem(<<"i","f">>, "Keyword", "Requirement condition"),
    CompletionItem(<<"i","f","d">>, "Keyword", "Requirement (show disabled)"),
    CompletionItem(<<"s","e","t">>, "Keyword", "Set variable"),
    CompletionItem(<<"s","e","t","i","f">>, "Keyword", "Conditional set"),
    CompletionItem(<<"c","a","l","l">>, "Keyword", "Call function"),
    CompletionItem(<<"c","a","l","l","i","f">>, "Keyword", "Conditional call"),
    CompletionItem(<<"d","i","s","a","b","l","e","d">>, "Keyword", "Disable file"),
    CompletionItem(<<"o","n","c","e">>, "Keyword", "One-time event") >>

PREFIX_COMPLETIONS ==
  << CompletionItem(<<"v","a","r","_">>, "Variable", "Story-scoped variable"),
    CompletionItem(<<"m","e","m","_">>, "Variable", "Game-scoped memory"),
    CompletionItem(<<"h","o","g","_">>, "Variable", "Groundhog variable"),
    CompletionItem(<<"s","k","i","l","l","_">>, "Variable", "Character skill"),
    CompletionItem(<<"l","o","v","e","_">>, "Variable", "Relationship value"),
    CompletionItem(<<"s","t","o","r","y","_">>, "Variable", "Story flag"),
    CompletionItem(<<"c","a","l","l","_">>, "Function", "Function call") >>

BRACKET_COMPLETIONS ==
  << CompletionItem(<<"i","f">>, "Keyword", "Conditional block"),
    CompletionItem(<<"i","f"," ","r","a","n","d","o","m">>, "Keyword", "Random selection"),
    CompletionItem(<<"e","l","s","e">>, "Keyword", "Alternative branch"),
    CompletionItem(<<"e","l","s","e","i","f">>, "Keyword", "Additional condition"),
    CompletionItem(<<"e","n","d","i","f">>, "Keyword", "End conditional"),
    CompletionItem(<<"e","n","d">>, "Keyword", "End conditional"),
    CompletionItem(<<"o","r">>, "Keyword", "Random alternative"),
    CompletionItem(<<"=">>, "Operator", "Variable interpolation") >>

SPECIAL_JUMP_COMPLETIONS ==
  << CompletionItem(<<"s","t","a","r","t">>, "Reference", "Jump to start"),
    CompletionItem(<<"e","n","d">>, "Reference", "End story"),
    CompletionItem(<<"b","a","c","k">>, "Reference", "Go back"),
    CompletionItem(<<"b","a","c","k","o","n","c","e">>, "Reference", "Go back (once)") >>

\* s.trimStart()
trimStart(s) == substringFrom(s, SpaceRun(s, 0))

\* /^~\w*$/ (the prefix "~" alone is the case of no word character)
TildePrefixMatch(s) == startsWith(s, <<"~">>) /\ 1 + WordRun(s, 1) = Len(s)

\* /^>{1,3}!?\s*\w*$/
JumpPrefixMatch(s) ==
  LET arrows == CharRun(s, ">", 0)
      bang == IF arrows < Len(s) /\ s[arrows + 1] = "!" THEN 1 ELSE 0
      blanks == SpaceRun(s, arrows + bang)
  IN  /\ arrows \in 1..3
      /\ arrows + bang + blanks + WordRun(s, arrows + bang + blanks) = Len(s)

\* /\[\s*\w*$/
BracketPrefixMatch(s) ==
  \E k \in DOMAIN s :
    /\ s[k] = "["
    /\ k + SpaceRun(s, k) + WordRun(s, k + SpaceRun(s, k)) = Len(s)

\* /\b(var|mem|hog|skill|love|story|call)_?$/: the word matched, or <<>>
VariablePrefixMatch(s) ==
  LET words == { <<"v","a","r">>, <<"m","e","m">>, <<"h","o","g">>, <<"s","k","i","l","l">>,
                 <<"l","o","v","e">>, <<"s","t","o","r","y">>, <<"c","a","l","l">> }
      body == IF Len(s) > 0 /\ s[Len(s)] = "_" THEN SubSeq(s, 1, Len(s) - 1) ELSE s
      ends(t, w) == /\ Len(t) >= Len(w)
                    /\ SubSeq(t, Len(t) - Len(w) + 1, Len(t)) = w
                    /\ (Len(t) = Len(w) \/ ~IsWord(t[Len(t) - Len(w)]))
      hits == {w \in words : ends(s, w) \/ ends(body, w)}
  IN  IF hits = {} THEN <<>> ELSE CHOOSE w \in hits : TRUE

\* /^~(if|ifd|set|setif|call|callif)\s+.*$/
TildeExpressionMatch(s) ==
  \E w \in { <<"i","f">>, <<"i","f","d">>, <<"s","e","t">>, <<"s","e","t","i","f">>,
             <<"c","a","l","l">>, <<"c","a","l","l","i","f">> } :
    /\ startsWith(s, <<"~">> \o w)
    /\ Len(s) > 1 + Len(w)
    /\ IsSpace(s[Len(w) + 2])

\* /\[=\w*$/
InterpolationPrefixMatch(s) ==
  \E k \in DOMAIN s :
    /\ MatchAt(s, <<"[","=">>, k - 1)
    /\ k + 1 + WordRun(s, k + 1) = Len(s)

\* findStoryAtLine: the first story whose range holds the line, or NoStory
findStoryAtLine(parseResult, line) ==
  LET stories == parseResult.document.stories
      hits == {k \in DOMAIN stories :
                 line >= stories[k].range.start.line /\ line <= stories[k].range.end.line}
  IN  IF hits = {} THEN NoStory ELSE stories[CHOOSE k \in hits : \A h \in hits : k <= h]

\* the entries of story.choiceIds in the order of the Map, which is the order
\* of their insertion: `start` at the header, then each identifier at the
\* line of its first registration, so the order of the lines of their ranges
RECURSIVE ChoiceIdEntries(_, _)
ChoiceIdEntries(choiceIds, ids) ==
  IF ids = {} THEN <<>>
  ELSE LET first == CHOOSE id \in ids :
                      \A other \in ids :
                        choiceIds[id].range.start.line <= choiceIds[other].range.start.line
       IN  << choiceIds[first] >> \o ChoiceIdEntries(choiceIds, ids \ {first})

\* the items pushed for the identifiers of the story, `start` excepted
RECURSIVE ChoiceIdCompletions(_)
ChoiceIdCompletions(entries) ==
  IF entries = <<>> THEN <<>>
  ELSE (IF Head(entries).id # kwStart
          THEN << CompletionItem(Head(entries).id, "Reference",
                                 IF Head(entries).isHidden THEN "Hidden choice" ELSE "Choice ID") >>
          ELSE <<>>)
       \o ChoiceIdCompletions(Tail(entries))

PrefixFilter(items, typed) == SelectSeq(items, LAMBDA c : startsWith(c.label, typed))

getCompletions(ls, position, parseResult) ==
  LET line == IF position.line < Len(ls) THEN ls[position.line + 1] ELSE <<>>
      linePrefix == substring(line, 0, IF position.character < Len(line)
                                         THEN position.character ELSE Len(line))
      trimmedPrefix == trimStart(linePrefix)
      story == findStoryAtLine(parseResult, position.line)
  IN  IF TildePrefixMatch(trimmedPrefix) THEN TILDE_COMPLETIONS
      ELSE IF JumpPrefixMatch(trimmedPrefix)
        THEN SPECIAL_JUMP_COMPLETIONS
             \o (IF story # NoStory
                   THEN ChoiceIdCompletions(ChoiceIdEntries(story.choiceIds,
                                                            DOMAIN story.choiceIds))
                   ELSE <<>>)
      ELSE IF BracketPrefixMatch(linePrefix) THEN BRACKET_COMPLETIONS
      ELSE IF VariablePrefixMatch(linePrefix) # <<>>
        THEN PrefixFilter(PREFIX_COMPLETIONS, VariablePrefixMatch(linePrefix))
      ELSE IF TildeExpressionMatch(trimmedPrefix) THEN PREFIX_COMPLETIONS
      ELSE IF InterpolationPrefixMatch(linePrefix) THEN PREFIX_COMPLETIONS
      ELSE <<>>

\* the cursor positions of a request: a line of the document and a column of it
Positions(ls) ==
  {[line |-> l, character |-> c] : l \in 0..(Len(ls) - 1), c \in 0..MaxColumn}

\* connection.onCompletion on the parse result of the document
Completion ==
  /\ pc = "parse_done"
  /\ \E position \in Positions(lines) :
       /\ position.character <= Len(lines[position.line + 1])
       /\ reply' = [position |-> position,
                    completions |-> getCompletions(lines, position, ParserResult(parser))]
  /\ pc' = "replied"
  /\ UNCHANGED <<workspace, lines, vb, lexer, parser, diagnostics, server>>

(***************************************************************************)
(* Documents: the lines of the analysed text, text.split(/\r?\n/)          *)
(***************************************************************************)
LnHeaderS == <<"=","=","="," ","s">>

LnHeaderT == <<"=","=","="," ","t">>

LnChoice1 == <<"*"," ","a">>

LnChoice2 == <<"*","*"," ","a">>

LnChoice3 == <<"*","*","*"," ","a">>

LnDefX == <<"="," ","x">>

LnDefY == <<"="," ","y">>

LnHiddenX == <<"*","="," ","x">>

LnJumpX == <<">"," ","x">>

LnIfX == <<"~","i","f"," ","x">>

LnSetX == <<"~","s","e","t"," ","x">>

LnText == <<"a">>

LnPageBreak == <<"-">>

LnDisabled == <<"~","d","i","s","a","b","l","e","d">>

LnLineComment == <<"/","/"," ","c">>

LnBlockCommentIndented == <<" ","/","*"," ","c"," ","*","/"," ">>

LnHidden2X == <<"*","*","="," ","x">>

LnJumpY == <<">"," ","y">>

LnJumpCondXY == <<">"," ","i","f"," ","c"," ","?"," ","x"," ",":"," ","y">>

LnJumpCondYZ == <<">"," ","i","f"," ","c"," ","?"," ","y"," ",":"," ","z">>

LnJumpUpperEnd == <<">"," ","E","N","D">>

LnJumpBare == <<">">>

LnJumpStart == <<">"," ","s","t","a","r","t">>

LnDefStart == <<"="," ","s","t","a","r","t">>

LnHiddenStart == <<"*","="," ","s","t","a","r","t">>

LnJumpEnd == <<">"," ","e","n","d">>

LnJumpBack == <<">"," ","b","a","c","k">>

LnJumpBackonce == <<">"," ","b","a","c","k","o","n","c","e">>

LnJumpStartonce == <<">"," ","s","t","a","r","t","o","n","c","e">>

\* lines of bracket keywords, comments and text, for validateBrackets
BracketLines ==
  { <<>>,
    BrIf,
    BrEndif,
    BrEnd,
    BrElse,
    BrIf \o BrOr \o BrElseif,
    BrElse \o BrBar,
    InlineComment \o BrIf,
    OpenComment,
    CloseComment \o BrEndif,
    LineCommentMark \o BrIf,
    BrIfUpper \o SP \o BrIfBare,
    <<"a","[","b","]","[">>,
    BrEndif \o BrIf }

\* one line or more for every branch of tokenizeLine
LexerLines ==
  { <<>>,
    <<" "," ">>,
    <<"/","*">>,
    <<"*","/">>,
    <<"a","*","/","b">>,
    <<"*","/"," ","/","*">>,
    <<"/","*","c","*","/">>,
    <<"a"," ","/","*">>,
    <<"/","/"," ","c">>,
    <<"=","=","=","=">>,
    <<"=","=","="," ","s">>,
    <<"=","=","=">>,
    <<"=","=","=","s">>,
    <<"~","i","f"," ","x">>,
    <<"~","i","f"," ","(","x">>,
    <<"~","i","f","d"," ","x",")">>,
    <<"~","i","f">>,
    <<"~","s","e","t">>,
    <<"~","s","e","t","i","f"," ","(">>,
    <<"~","i","f","f"," ","x">>,
    <<"~","d","i","s","a","b","l","e","d">>,
    <<"~","o","n","c","e">>,
    <<">"," ","x">>,
    <<">",">"," ","x">>,
    <<">","!","x">>,
    <<">">>,
    <<"="," ","x">>,
    <<"=","x"," ","y">>,
    <<"*"," ","a">>,
    <<" ","*","*"," ","a">>,
    <<"*","="," ","x">>,
    <<"*","=">>,
    <<"*","="," ","x"," ","y">>,
    <<"-">>,
    <<"a">>,
    <<"[","i","f"," ","x","]">> }

\* a story header and choice markers of depth 1 to 3
TreeLines ==
  { LnHeaderS,
    LnChoice1,
    LnChoice2,
    LnChoice3 }

\* a story header, choices, identifier registrations and a jump
IdLines ==
  { LnHeaderS,
    LnChoice1,
    LnDefX,
    LnHiddenX,
    LnDefY,
    LnJumpX }

\* the lines that precede and that end a document whose first tokens matter
FillerLines == { LnText, <<>>, LnLineComment }

LookaheadTailLines == { LnDisabled, LnHeaderS, LnText }

\* n copies of one filler line, then a tail of one line or more
LookaheadDocs ==
  { [k \in 1..n |-> filler] \o tail :
      n \in 0..MaxFillerLines, filler \in FillerLines,
      tail \in SeqsOf(LookaheadTailLines, 1, MaxTailLines) }

\* a story header, choices of three depths, hidden choices and text
StackLines ==
  { LnHeaderS,
    LnChoice1,
    LnChoice2,
    LnChoice3,
    LnHiddenX,
    LnHidden2X,
    LnText }

\* a story header, a choice, and definitions of `start` and of another name
StartLines ==
  { LnHeaderS,
    LnChoice1,
    LnDefStart,
    LnHiddenStart,
    LnDefX }

\* a story header, a choice, a definition and jumps of every target shape
JumpLines ==
  { LnHeaderS,
    LnChoice1,
    LnDefX,
    LnJumpX,
    LnJumpY,
    LnJumpCondXY,
    LnJumpCondYZ,
    LnJumpUpperEnd,
    LnJumpBare }

\* a story header, a choice, a definition, a jump to each special target and one to an undefined target
SpecialJumpLines ==
  { LnHeaderS,
    LnChoice1,
    LnDefX,
    LnJumpStart,
    LnJumpEnd,
    LnJumpBack,
    LnJumpBackonce,
    LnJumpStartonce,
    LnJumpY }

\* two story headers, a choice, a definition and a jump to it
ScopeLines ==
  { LnHeaderS,
    LnHeaderT,
    LnChoice1,
    LnDefX,
    LnJumpX }

\* a story header, choices of depth one and two, hidden choices of depth one
\* and two, and two bare identifier lines
HiddenLines ==
  { LnHeaderS,
    LnChoice1,
    LnChoice2,
    LnHiddenX,
    LnHidden2X,
    LnDefX,
    LnDefY }

\* a story header, choices, a hidden choice, a requirement, a mutation and a jump
CurrentLines ==
  { LnHeaderS,
    LnChoice1,
    LnChoice2,
    LnHiddenX,
    LnIfX,
    LnSetX,
    LnJumpX }

\* a story header, the disabled marker, an empty line and one content line of
\* every kind: text, directive, choice marker, identifier line, jump, page break
PreambleLines ==
  { LnHeaderS,
    LnDisabled,
    <<>>,
    LnText,
    LnIfX,
    LnChoice1,
    LnDefX,
    LnJumpX,
    LnPageBreak }

\* a block comment opener, and lines with the terminator followed by nothing,
\* by blanks, by text and by each kind of line that has a token of its own
TerminatorLines ==
  { OpenComment,
    CloseComment,
    CloseComment \o SP,
    CloseComment \o LnText,
    CloseComment \o LnHeaderS,
    CloseComment \o LnIfX,
    CloseComment \o LnChoice1,
    CloseComment \o LnJumpX,
    CloseComment \o LnDefX,
    LnText \o CloseComment \o SP \o LnJumpX }

\* a story header, the disabled marker, narrative text, a line comment and
\* block comments opened and terminated on their own line
OneLineCommentLines ==
  { LnHeaderS,
    LnDisabled,
    LnText,
    LnLineComment,
    InlineComment,
    LnBlockCommentIndented }

\* a story header, choices of depth one to three, a block comment and a
\* conditional block
FoldLines ==
  { LnHeaderS,
    LnChoice1,
    LnChoice2,
    LnChoice3,
    OpenComment,
    CloseComment,
    BrIf,
    BrEndif }

\* a story header, a choice, identifier registrations, and one line for each
\* kind of text a completion request can find before the cursor
CompletionLines ==
  { LnHeaderS,
    LnChoice1,
    LnDefX,
    LnHiddenX,
    <<">"," ">>,
    <<">",">"," ","x">>,
    <<"~","i">>,
    <<"[","i">>,
    <<"v","a","r">>,
    LnIfX,
    <<"[","=","v">> }

\* every recognized command with no expression, bare, indented, followed by
\* blanks or in upper case, and commands with an expression
EmptyCommandLines ==
  { <<"~","i","f">>,
    <<"~","i","f","d">>,
    <<"~","s","e","t">>,
    <<"~","s","e","t","i","f">>,
    <<"~","c","a","l","l">>,
    <<"~","c","a","l","l","i","f">>,
    <<"~","d","i","s","a","b","l","e","d">>,
    <<"~","o","n","c","e">>,
    <<" ","~","i","f"," "," ">>,
    <<"~","S","E","T","I","F">>,
    <<" ","~","s","e","t"," ">>,
    LnIfX,
    <<"~","s","e","t","i","f"," ","(">>,
    <<"~","o","n","c","e"," ","(">> }

\* directives with parentheses: balanced, an extra ")" and a missing ")",
\* indented or not, with no, one or two blanks after the command word
ParenLines ==
  { <<"~","i","f"," ","(","x",")">>,
    <<" ","~","s","e","t"," "," ","(","(",")",")">>,
    <<"~","i","f","d","(","x",")">>,
    <<"~","s","e","t","i","f"," ","(",")","(",")">>,
    <<"~","i","f"," ","x",")">>,
    <<" "," ","~","s","e","t"," ","x",")">>,
    <<"~","i","f"," "," ","x",")">>,
    <<"~","i","f","(","x",")",")">>,
    <<"~","i","f","d"," ",")","(">>,
    <<"~","s","e","t","i","f"," ","x",")",")">>,
    <<"~","i","f"," ","(","x">>,
    <<"~","c","a","l","l"," ","x",")">>,
    <<"~","i","f"," ","x">>,
    <<"a",")">>,
    <<>> }

\* directives with one, two or three extra ")" followed or not by a "(" that
\* is never closed
ExtraCloseLines ==
  { <<"~","i","f"," ",")","(">>,
    <<"~","i","f"," ","x",")",")","(">>,
    <<"~","s","e","t"," ","x",")",")","(">>,
    <<"~","s","e","t","i","f"," ",")",")",")","(">>,
    <<"~","i","f","d"," ",")",")","(","(">>,
    <<" ","~","s","e","t"," ",")","(","x",")",")","(">>,
    <<"~","i","f"," ",")","(",")">>,
    <<"~","i","f"," ","x",")",")">>,
    <<"~","s","e","t"," ","(","x">>,
    <<"~","i","f"," ","x">>,
    <<"~","c","a","l","l"," ",")",")","(">>,
    <<"a",")",")","(">> }

\* one line or more for every kind of diagnostic of the three stages
DiagLines ==
  { LnHeaderS,
    <<"~","i","f","f"," ","x">>,
    <<"~","f","o","o">>,
    <<"~","i","f">>,
    <<"~","i","f"," ","x",")">>,
    <<"=","=","=">>,
    <<"/","*">>,
    <<"~","d","i","s","a","b","l","e","d">>,
    BrEndif,
    BrIf,
    <<"*">>,
    <<"~","s","e","t"," ","a","b","_","c">>,
    <<"a","\"">>,
    <<"~","i","f"," ","a"," ","="," ","="," ","b">> }

\* lines with one diagnostic of each stage, for the runs where a stage throws
FaultLines ==
  { LnHeaderS,
    LnChoice1,
    LnJumpX,
    <<"~","f","o","o">>,
    BrEndif,
    <<"*">> }

Docs(universe, maxLines) == SeqsOf(universe, 1, maxLines)

InitOn(docs, start) ==
  /\ lines \in docs
  /\ pc = start
  /\ vb = VbInit
  /\ lexer = LexerInit
  /\ parser = ParserInit
  /\ diagnostics = <<>>
  /\ server = ServerInit
  /\ workspace = WorkspaceInit
  /\ reply = <<>>

(***************************************************************************)
(* Specifications                                                          *)
(***************************************************************************)
BracketsNext == VbLine \/ VbMatch \/ VbFinish

LexerNext == LexLine \/ LexFinish

ParseNext == ParseBegin \/ ParseDocStep \/ ParseStoryStep \/ ParseValidate

DiagNext == ParseNext \/ AdParsed \/ BracketsNext \/ AdBrackets \/ AdLint

FoldingNext == ParseNext \/ FoldingRanges

CompletionNext == ParseNext \/ Completion

WorkspaceNext ==
  \/ \E uri \in Uris : OpenDocument(uri)
  \/ \E uri \in Uris : ChangeDocument(uri)
  \/ \E uri \in Uris : CloseDocument(uri)
  \/ ResumeValidation
  \/ \E uri \in Uris : RequestDocument(uri)

FaultNext == DiagNext \/ AdParseThrows \/ AdBracketsThrows \/ AdLintThrows

ServerNext ==
  \/ Initialize
  \/ DidOpen
  \/ DidChangeContent
  \/ DidClose
  \/ DidChangeConfiguration
  \/ ValidateResume
  \/ DiagNext
  \/ SendDiagnostics
  \/ \E consumer \in Consumers : ConsumerRequest(consumer)

InitBrackets == InitOn(Docs(BracketLines, MaxBracketLines), "vb_line")

InitLexer == InitOn(Docs(LexerLines, MaxLexLines), "lex_line")

InitParens == InitOn(Docs(ParenLines, MaxLexLines), "lex_line")

InitEmptyCommand == InitOn(Docs(EmptyCommandLines, MaxLexLines), "lex_line")

InitExtraClose == InitOn(Docs(ExtraCloseLines, MaxLexLines), "lex_line")

InitStart == InitOn(Docs(StartLines, MaxParseLines), "parse_start")

InitLookahead == InitOn(LookaheadDocs, "parse_start")

InitStack == InitOn(Docs(StackLines, MaxHiddenLines), "parse_start")

InitTerminator == InitOn(Docs(TerminatorLines, MaxLexLines), "lex_line")

InitDiag == InitOn(Docs(DiagLines, MaxDiagLines), "parse_start")

InitFaults == InitOn(Docs(FaultLines, MaxFaultLines), "parse_start")

\* the server before initialize, with no document open
InitServer ==
  /\ lines = << <<>> >>
  /\ pc = "start"
  /\ vb = VbInit
  /\ lexer = LexerInit
  /\ parser = ParserInit
  /\ diagnostics = <<>>
  /\ server = ServerInit
  /\ workspace = WorkspaceInit
  /\ reply = <<>>

InitTree == InitOn(Docs(TreeLines, MaxParseLines), "parse_start")

InitIds == InitOn(Docs(IdLines, MaxParseLines), "parse_start")

InitJumps == InitOn(Docs(JumpLines, MaxJumpLines), "parse_start")

InitSpecialJumps == InitOn(Docs(SpecialJumpLines, MaxJumpLines), "parse_start")

InitScope == InitOn(Docs(ScopeLines, MaxParseLines), "parse_start")

InitHidden == InitOn(Docs(HiddenLines, MaxHiddenLines), "parse_start")

InitCurrent == InitOn(Docs(CurrentLines, MaxCurrentLines), "parse_start")

InitPreamble == InitOn(Docs(PreambleLines, MaxPreambleLines), "parse_start")

InitFolding == InitOn(Docs(FoldLines, MaxFoldLines), "parse_start")

InitCompletion == InitOn(Docs(CompletionLines, MaxCompletionLines), "parse_start")

\* the server after initialize, with no document open
InitWorkspace ==
  /\ lines = << <<>> >>
  /\ pc = "idle"
  /\ vb = VbInit
  /\ lexer = LexerInit
  /\ parser = ParserInit
  /\ diagnostics = <<>>
  /\ server = ServerInit
  /\ workspace = WorkspaceInit
  /\ reply = <<>>

InitOneLineComment == InitOn(Docs(OneLineCommentLines, MaxPreambleLines), "parse_start")

SpecBrackets == InitBrackets /\ [][BracketsNext]_vars

SpecLexer == InitLexer /\ [][LexerNext]_vars

SpecParens == InitParens /\ [][LexerNext]_vars

SpecEmptyCommand == InitEmptyCommand /\ [][LexerNext]_vars

SpecExtraClose == InitExtraClose /\ [][LexerNext]_vars

SpecStart == InitStart /\ [][ParseNext]_vars

SpecLookahead == InitLookahead /\ [][ParseNext]_vars

\* parse() is one synchronous call: once its loops are entered, their
\* iterations and validateJumpTargets run on without waiting for anything
SpecParseRuns ==
  InitPreamble /\ [][ParseNext]_vars
    /\ WF_vars(ParseDocStep \/ ParseStoryStep \/ ParseValidate)

SpecStack == InitStack /\ [][ParseNext]_vars

SpecTerminator == InitTerminator /\ [][LexerNext]_vars

SpecDiag == InitDiag /\ [][DiagNext]_vars

SpecFaults == InitFaults /\ [][FaultNext]_vars

SpecServer == InitServer /\ [][ServerNext]_vars

SpecTree == InitTree /\ [][ParseNext]_vars

SpecIds == InitIds /\ [][ParseNext]_vars

SpecJumps == InitJumps /\ [][ParseNext]_vars

SpecSpecialJumps == InitSpecialJumps /\ [][ParseNext]_vars

SpecScope == InitScope /\ [][ParseNext]_vars

SpecHidden == InitHidden /\ [][ParseNext]_vars

SpecCurrent == InitCurrent /\ [][ParseNext]_vars

SpecPreamble == InitPreamble /\ [][ParseNext]_vars

SpecFolding == InitFolding /\ [][FoldingNext]_vars

SpecCompletion == InitCompletion /\ [][CompletionNext]_vars

SpecWorkspace == InitWorkspace /\ [][WorkspaceNext]_vars

SpecOneLineComment == InitOneLineComment /\ [][ParseNext]_vars

Init == InitLexer

Next == LexerNext

Spec == SpecLexer

(***************************************************************************)
(* Reading the document: which line belongs to which story, and what it    *)
(* registers or jumps to                                                   *)
(***************************************************************************)
HeaderLines == {LnHeaderS, LnHeaderT}

ChoiceMarkerLines == {LnChoice1, LnChoice2, LnChoice3, LnHiddenX}

\* the number of the story a line belongs to: the headers at or before it
StoryOf(i) == Cardinality({h \in 1..i : lines[h] \in HeaderLines})

\* the lines of story k that register identifier id, by `= id` or `*= id`
Registrations(k, id) ==
  {i \in DOMAIN lines :
     /\ StoryOf(i) = k
     /\ \/ id = <<"x">> /\ lines[i] \in {LnDefX, LnHiddenX}
        \/ id = <<"y">> /\ lines[i] = LnDefY}

\* the identifier operands of a jump line
JumpOperands(line) ==
  CASE line = LnJumpX -> << <<"x">> >>
    [] line = LnJumpY -> << <<"y">> >>
    [] line = LnJumpCondXY -> << <<"x">>, <<"y">> >>
    [] line = LnJumpCondYZ -> << <<"y">>, <<"z">> >>
    [] line = LnJumpUpperEnd -> << <<"E","N","D">> >>
    [] line = LnJumpStart -> << kwStart >>
    [] line = LnJumpEnd -> << kwEnd >>
    [] line = LnJumpBack -> << kwBack >>
    [] line = LnJumpBackonce -> << kwBackonce >>
    [] line = LnJumpStartonce -> << kwStartonce >>
    [] OTHER -> <<>>

\* a jump line is attached to a choice when a choice was opened before it in its story
AttachedJumpLines ==
  {i \in DOMAIN lines :
     /\ JumpOperands(lines[i]) # <<>>
     /\ StoryOf(i) >= 1
     /\ \E j \in 1..(i - 1) : StoryOf(j) = StoryOf(i) /\ lines[j] \in ChoiceMarkerLines}

\* the positions in a list of diagnostics of those with a given code
WithCode(errs, code) == {j \in DOMAIN errs : errs[j].code = code}

\* zero-based source line of a diagnostic, as an index into lines
LineOf(e) == e.range.start.line + 1

Min(S) == CHOOSE m \in S : \A n \in S : m <= n

(***************************************************************************)
(* Lexer properties                                                        *)
(***************************************************************************)
EofTokens == {j \in DOMAIN lexer.tokens : lexer.tokens[j].type = "EOF"}

\* C1: tokenize yields exactly one line type per input line, whatever the
\* line holds and whatever the block comment state, and exactly one EOF
\* token, which is the last token; no EOF token exists before the end.
C1_OneLineTypePerLine ==
  /\ Len(lexer.lineTypes) = lexer.lineNum
  /\ pc = "lex_line" => EofTokens = {}
  /\ pc = "lex_done" => /\ Len(lexer.lineTypes) = Len(lines)
                        /\ EofTokens = {Len(lexer.tokens)}

\* a finished document of two lines or more, one of them read inside a block comment
C1_LineInsideComment ==
  /\ pc = "lex_done"
  /\ Len(lines) >= 2
  /\ "IN_BLOCK_COMMENT" \in Range(lexer.lineTypes)
  /\ "COMMENT" \in Range(lexer.lineTypes)

(***************************************************************************)
(* Parser properties                                                       *)
(***************************************************************************)
UnknownOn(i) ==
  {j \in WithCode(parser.errors, "unknown-jump-target") : LineOf(parser.errors[j]) = i}

DuplicatesIn(k, id) ==
  {j \in WithCode(parser.errors, "duplicate-choice-id") :
     parser.errors[j].arg = id /\ StoryOf(LineOf(parser.errors[j])) = k}

\* the range of the token of a line that starts at column 0
LineRange(i) == makeRange(i - 1, 0, Len(lines[i]))

SpecialTargets == {kwStart, kwEnd, kwBack, kwBackonce, kwStartonce}

\* C2: every child choice is exactly one level deeper than its parent, and
\* every root choice of a story has level 1 or carries an orphaned-choice
\* error on its range.
C2_ChildDepthIsParentPlusOne ==
  pc = "parse_done" =>
    /\ \A p \in DOMAIN parser.nodes : \A c \in Range(parser.nodes[p].children) :
         parser.nodes[c].level = parser.nodes[p].level + 1
    /\ \A k \in DOMAIN parser.stories : \A r \in Range(parser.stories[k].choices) :
         \/ parser.nodes[r].level = 1
         \/ \E j \in WithCode(parser.errors, "orphaned-choice") :
              parser.errors[j].range = parser.nodes[r].range

\* C3: an identifier registered n >= 1 times in one story yields exactly
\* n-1 duplicate-ID errors, one on the range of each registration but the
\* first, and the story's map holds the first registration; an identifier
\* never registered is not in the map.
C3_DuplicateIds ==
  pc = "parse_done" =>
    \A k \in DOMAIN parser.stories : \A id \in {<<"x">>, <<"y">>} :
      LET regs == Registrations(k, id)
          dups == DuplicatesIn(k, id)
      IN  IF regs = {}
            THEN dups = {} /\ id \notin DOMAIN parser.stories[k].choiceIds
            ELSE /\ Cardinality(dups) = Cardinality(regs) - 1
                 /\ {LineOf(parser.errors[j]) : j \in dups} = regs \ {Min(regs)}
                 /\ \A j \in dups : parser.errors[j].range = LineRange(LineOf(parser.errors[j]))
                 /\ id \in DOMAIN parser.stories[k].choiceIds
                 /\ parser.stories[k].choiceIds[id].range = LineRange(Min(regs))

\* a story that registers x three times or more, by `= x` and by `*= x`
C3_ThreeRegistrations ==
  /\ pc = "parse_done"
  /\ \E k \in DOMAIN parser.stories :
       /\ Cardinality(Registrations(k, <<"x">>)) >= 3
       /\ \E i, j \in Registrations(k, <<"x">>) : lines[i] = LnDefX /\ lines[j] = LnHiddenX

\* C4: for a jump attached to a choice, each identifier operand that is
\* neither a key of the story's map nor a special target yields exactly one
\* unknown-jump-target diagnostic and every other operand none; every such
\* diagnostic is a warning on the range of an attached jump.
C4_OneWarningPerUnknownOperand ==
  pc = "parse_done" =>
    /\ \A i \in AttachedJumpLines :
         LET ops == JumpOperands(lines[i])
             ids == DOMAIN parser.stories[StoryOf(i)].choiceIds
         IN  /\ \A j \in UnknownOn(i) : parser.errors[j].arg \in Range(ops)
             /\ \A t \in Range(ops) :
                  Cardinality({j \in UnknownOn(i) : parser.errors[j].arg = t})
                    = IF t \notin ids /\ toLowerCase(t) \notin SpecialTargets
                        THEN Cardinality({n \in DOMAIN ops : ops[n] = t})
                        ELSE 0
    /\ \A j \in WithCode(parser.errors, "unknown-jump-target") :
         /\ parser.errors[j].severity = "warning"
         /\ LineOf(parser.errors[j]) \in AttachedJumpLines
         /\ parser.errors[j].range = LineRange(LineOf(parser.errors[j]))

\* an attached conditional jump `if c ? x : y` in a story that defines x
\* but not y: one diagnostic, for y
C4_OneOfTwoOperandsUnknown ==
  /\ pc = "parse_done"
  /\ \E i \in AttachedJumpLines :
       /\ lines[i] = LnJumpCondXY
       /\ <<"x">> \in DOMAIN parser.stories[StoryOf(i)].choiceIds
       /\ Cardinality(UnknownOn(i)) = 1
       /\ \A j \in UnknownOn(i) : parser.errors[j].arg = <<"y">>

\* C5: a jump to start, end, back, backonce or startonce never yields an
\* unknown-jump-target diagnostic, whatever the story defines.
C5_SpecialTargetsNeverUnknown ==
  \A i \in DOMAIN lines :
    (JumpOperands(lines[i]) # <<>> /\ Range(JumpOperands(lines[i])) \subseteq SpecialTargets)
       => UnknownOn(i) = {}

\* a validated jump to a special target, attached to a choice of a story
\* that defines no identifier
C5_SpecialJumpNoDefinitions ==
  /\ pc = "parse_done"
  /\ \E i \in AttachedJumpLines :
       /\ Range(JumpOperands(lines[i])) \subseteq SpecialTargets
       /\ DOMAIN parser.stories[StoryOf(i)].choiceIds = {kwStart}
       /\ \E n \in DOMAIN parser.nodes : \E m \in DOMAIN parser.nodes[n].jumps :
            parser.nodes[n].jumps[m].range = LineRange(i)

\* C6: no jump is resolved before every story has been built, and a jump to
\* an identifier registered anywhere in its story, before or after the
\* jump, yields no unknown-jump-target diagnostic.
C6_ResolvedAfterAllStories ==
  /\ pc # "parse_done" => WithCode(parser.errors, "unknown-jump-target") = {}
  /\ pc = "parse_done" =>
       \A i \in DOMAIN lines :
         (lines[i] = LnJumpX /\ StoryOf(i) >= 1 /\ Registrations(StoryOf(i), <<"x">>) # {})
            => UnknownOn(i) = {}

\* an attached jump to x whose only registrations in the story come after it
C6_ForwardReference ==
  /\ pc = "parse_done"
  /\ \E i \in AttachedJumpLines :
       /\ lines[i] = LnJumpX
       /\ Registrations(StoryOf(i), <<"x">>) # {}
       /\ \A r \in Registrations(StoryOf(i), <<"x">>) : r > i

\* C7: identifiers are scoped per story: a story that registers x once has
\* no duplicate-ID error whatever the other stories register, and an
\* attached jump to x in a story that does not register x yields exactly
\* one unknown-jump-target diagnostic whatever the other stories register.
C7_IdsScopedPerStory ==
  pc = "parse_done" =>
    /\ \A k \in DOMAIN parser.stories :
         Cardinality(Registrations(k, <<"x">>)) <= 1 => DuplicatesIn(k, <<"x">>) = {}
    /\ \A i \in AttachedJumpLines :
         (lines[i] = LnJumpX /\ Registrations(StoryOf(i), <<"x">>) = {})
            => Cardinality(UnknownOn(i)) = 1

\* an attached jump to x in a story that does not register x, in a document
\* where another story does
C7_DefinedInOtherStory ==
  /\ pc = "parse_done"
  /\ \E i \in AttachedJumpLines :
       /\ lines[i] = LnJumpX
       /\ Registrations(StoryOf(i), <<"x">>) = {}
       /\ \E k \in DOMAIN parser.stories : Registrations(k, <<"x">>) # {}

(***************************************************************************)
(* validateBrackets properties                                             *)
(***************************************************************************)
\* the match bracketRegex.exec is about to return in state vb_scan
CurrentMatch == BracketExec(vb.line, vb.lastIndex)

CurrentContent == toLowerCase(trim(CurrentMatch.inner))

\* the source line has, at column c, a bracket expression with an opening keyword
OpeningBracketAt(line, c) ==
  /\ MatchAt(line, <<"[">>, c)
  /\ BracketExec(line, c).found
  /\ IsOpeningKeyword(toLowerCase(trim(BracketExec(line, c).inner)))

\* the source line has, at column c, the text of the current match
CurrentMatchIsAt(line, c) ==
  /\ c + CurrentMatch.length <= Len(line)
  /\ substring(line, c, c + CurrentMatch.length)
       = substring(vb.line, CurrentMatch.index, CurrentMatch.index + CurrentMatch.length)

\* C8: at the end of input every frame left on the stack yields exactly
\* one unclosed-[if] error, anchored at the line and column of the frame's
\* opening bracket in the text.
C8_UnclosedPerOpenFrame ==
  pc = "vb_done" =>
    LET un == WithCode(vb.errors, "unclosed-if")
    IN  /\ Cardinality(un) = Len(vb.stack)
        /\ \A n \in DOMAIN vb.stack : \E j \in un :
             vb.errors[j].range.start = [line |-> vb.stack[n].line,
                                         character |-> vb.stack[n].character]
        /\ \A j \in un :
             OpeningBracketAt(lines[LineOf(vb.errors[j])], vb.errors[j].range.start.character)

\* C9: a closing keyword read with an empty stack appends exactly one
\* unmatched-close error located at that bracket in the text and leaves
\* the stack empty; read with a non-empty stack it pops exactly one frame
\* and appends no error.
C9_ClosingKeyword ==
  [][(pc = "vb_scan" /\ CurrentMatch.found /\ CurrentContent \in {<<"e","n","d","i","f">>, <<"e","n","d">>})
       => IF vb.stack = <<>>
            THEN /\ vb'.stack = <<>>
                 /\ Len(vb'.errors) = Len(vb.errors) + 1
                 /\ SubSeq(vb'.errors, 1, Len(vb.errors)) = vb.errors
                 /\ LET e == vb'.errors[Len(vb'.errors)]
                    IN  /\ e.code = "unmatched-endif"
                        /\ e.range.start.line = vb.lineNum
                        /\ CurrentMatchIsAt(lines[vb.lineNum + 1], e.range.start.character)
            ELSE /\ vb'.stack = SubSeq(vb.stack, 1, Len(vb.stack) - 1)
                 /\ vb'.errors = vb.errors]_vars

\* the middle keywords: else, elseif, or, each alone or followed by a
\* condition, and the | shorthand
MiddleContent(content) ==
  \/ FirstField(content) \in {<<"e","l","s","e">>, <<"e","l","s","e","i","f">>, <<"o","r">>}
  \/ content = <<"|">>

\* C10: a middle keyword read with an empty stack appends exactly one
\* outside-of-[if] error; read with a non-empty stack it appends nothing;
\* in both cases the stack is unchanged.
C10_MiddleKeyword ==
  [][(pc = "vb_scan" /\ CurrentMatch.found /\ MiddleContent(CurrentContent))
       => /\ vb'.stack = vb.stack
          /\ IF vb.stack = <<>>
               THEN /\ Len(vb'.errors) = Len(vb.errors) + 1
                    /\ SubSeq(vb'.errors, 1, Len(vb.errors)) = vb.errors
                    /\ vb'.errors[Len(vb'.errors)].code = "orphaned-else"
                    /\ vb'.errors[Len(vb'.errors)].range.start.line = vb.lineNum
               ELSE vb'.errors = vb.errors]_vars

\* [else][|] outside any block, then [if x][or][elseif x]: two errors for
\* the first line, none for the second, whose block is still open
C10_MiddleInsideAndOutside ==
  /\ pc = "vb_done"
  /\ lines = << BrElse \o BrBar, BrIf \o BrOr \o BrElseif >>
  /\ Cardinality(WithCode(vb.errors, "orphaned-else")) = 2
  /\ \A j \in WithCode(vb.errors, "orphaned-else") : vb.errors[j].range.start.line = 0
  /\ Len(vb.stack) = 1

(***************************************************************************)
(* Directive expressions: parentheses                                      *)
(***************************************************************************)
ParenCommands ==
  {<<"i","f">>, <<"i","f","d">>, <<"s","e","t">>, <<"s","e","t","i","f">>}

\* the zero-based column just after the command word of a directive line
CommandEnd(line) ==
  LET tilde == indexOf(line, <<"~">>, 0)
  IN  tilde + 1 + WordRun(line, tilde + 1)

\* how many times c occurs in s from column a (included) to column b (excluded)
CountIn(s, c, a, b) == Cardinality({k \in (a + 1)..b : k <= Len(s) /\ s[k] = c})

\* the columns of the ")" up to which the expression has more ")" than "("
ExtraCloseColumns(line) ==
  {k \in CommandEnd(line)..(Len(line) - 1) :
     /\ line[k + 1] = ")"
     /\ CountIn(line, ")", CommandEnd(line), k + 1) > CountIn(line, "(", CommandEnd(line), k + 1)}

\* balanced in sequence order
BalancedExpression(line) ==
  /\ ExtraCloseColumns(line) = {}
  /\ CountIn(line, ")", CommandEnd(line), Len(line)) = CountIn(line, "(", CommandEnd(line), Len(line))

\* the lines read so far as ~if, ~ifd, ~set or ~setif directives
ParenDirectiveLines ==
  {i \in 1..lexer.lineNum :
     /\ lexer.lineTypes[i] = "TILDE_COMMAND"
     /\ toLowerCase(TildeMatch(trim(lines[i])).word) \in ParenCommands}

ParenErrorsOn(i) ==
  {j \in WithCode(lexer.errors, "unbalanced-parens") : LineOf(lexer.errors[j]) = i}

\* C11: an ~if, ~ifd, ~set or ~setif line whose expression is balanced in
\* sequence order gets no unbalanced-parentheses diagnostic from the lexer.
C11_BalancedHasNoParenError ==
  \A i \in ParenDirectiveLines :
    BalancedExpression(lines[i]) => ParenErrorsOn(i) = {}

\* nested and adjacent pairs, with and without blanks before the expression
C11_BalancedNestedAndAdjacent ==
  /\ pc = "lex_done"
  /\ lines = << <<" ","~","s","e","t"," "," ","(","(",")",")">>,
                <<"~","s","e","t","i","f"," ","(",")","(",")">> >>
  /\ ParenDirectiveLines = {1, 2}
  /\ lexer.errors = <<>>

\* C12: for an ~if, ~ifd, ~set or ~setif line whose expression has a prefix
\* with more ")" than "(", a diagnostic is produced for the first such ")",
\* and its range is the one-character span at the column of that ")" in the
\* source line, whatever the indentation and the blanks after the command.
C12_ExtraCloseAtItsColumn ==
  \A i \in ParenDirectiveLines :
    ExtraCloseColumns(lines[i]) # {}
      => \E j \in ParenErrorsOn(i) :
           LET col == Min(ExtraCloseColumns(lines[i]))
           IN  /\ lexer.errors[j].message # "Unbalanced parentheses: missing )"
               /\ lexer.errors[j].range = makeRange(i - 1, col, col + 1)

(***************************************************************************)
(* analyzeDiagnostics properties                                           *)
(***************************************************************************)
\* the positions in the returned list of the diagnostics with a given code
\* on the line lines[i]
DiagsOn(code, i) ==
  {j \in DOMAIN diagnostics :
     diagnostics[j].code = code /\ diagnostics[j].range.start.line = i - 1}

\* the directive lines whose command word is not in the whitelist
UnknownCommandLines ==
  {i \in DOMAIN lines :
     /\ lexer.lineTypes[i] = "TILDE_COMMAND"
     /\ \A k \in DOMAIN TILDE_COMMANDS :
          TILDE_COMMANDS[k] # toLowerCase(TildeMatch(trim(lines[i])).word)}

StructuralCodes ==
  {"invalid-story-header", "unknown-tilde-command", "empty-tilde-expression",
   "unbalanced-parens", "unclosed-comment"}

BracketCodes == {"unmatched-endif", "orphaned-else", "unclosed-if"}

LintCodes ==
  {"typo", "spaced-operator", "empty-choice", "unknown-prefix", "unmatched-quote"}

\* C13: for a directive line whose command word is not in the whitelist,
\* when the word is a key of the typo table the returned diagnostics hold a
\* "Did you mean" suggestion for the line and no "Unknown tilde command"
\* error for it; otherwise they hold exactly one "Unknown tilde command"
\* error for the line.
C13_SuggestionReplacesUnknown ==
  pc = "ad_done" =>
    \A i \in UnknownCommandLines :
      IF toLowerCase(TildeMatch(trim(lines[i])).word) \in DOMAIN typoMap
        THEN /\ DiagsOn("typo", i) # {}
             /\ DiagsOn("unknown-tilde-command", i) = {}
        ELSE Cardinality(DiagsOn("unknown-tilde-command", i)) = 1

\* C14, as stated: every structural diagnostic (invalid story header,
\* unknown tilde command, missing directive expression, unbalanced
\* parentheses, unclosed block comment) has severity Error.
C14_StructuralAreErrors ==
  \A j \in DOMAIN diagnostics :
    diagnostics[j].code \in StructuralCodes => diagnostics[j].severity = "Error"

\* C14, amended: a missing directive expression has severity Warning, every
\* other structural diagnostic has severity Error.
C14_StructuralSeverities ==
  \A j \in DOMAIN diagnostics :
    diagnostics[j].code \in StructuralCodes
      => diagnostics[j].severity =
           IF diagnostics[j].code = "empty-tilde-expression" THEN "Warning" ELSE "Error"

\* ~if without a condition, then an unknown directive
C14_MissingExpressionAndUnknown ==
  /\ pc = "ad_done"
  /\ lines = << <<"~","i","f">>, <<"~","f","o","o">> >>
  /\ Len(diagnostics) = 2
  /\ diagnostics[1].code = "empty-tilde-expression" /\ diagnostics[1].severity = "Warning"
  /\ diagnostics[2].code = "unknown-tilde-command" /\ diagnostics[2].severity = "Error"

\* C15: every diagnostic of the lint checks (typo suggestion, spaced
\* operator, empty choice text, unknown variable prefix, unmatched quote)
\* has severity Warning or Hint, never Error.
C15_LintNeverError ==
  \A j \in DOMAIN diagnostics :
    diagnostics[j].code \in LintCodes
      => diagnostics[j].severity \in {"Warning", "Hint"}

\* the diagnostics of the catch blocks
ExceptionCodes == {"parser-exception", "bracket-exception", "validation-exception"}

Exceptions == {j \in DOMAIN diagnostics : diagnostics[j].code \in ExceptionCodes}

\* every error of a list is in the returned list, converted
AllReturned(errors) ==
  \A k \in DOMAIN errors :
    \E j \in DOMAIN diagnostics : diagnostics[j] = convertToDiagnostic(errors[k])

\* C16: when one of the four stages (line classifier, tree builder, bracket
\* validator, lint checks) fails, the returned list holds exactly one
\* diagnostic for the failure and the diagnostics of every other stage:
\* those of the line classifier when the tree builder failed, those of the
\* parse when the bracket validator or the lint checks failed, those of the
\* bracket validator and of the lint checks when another stage failed.
C16_OtherStagesStillReport ==
  (pc = "ad_done" /\ Cardinality(Exceptions) = 1) =>
    LET e == diagnostics[CHOOSE j \in Exceptions : TRUE].arg
    IN  /\ e = InParser => AllReturned(lexer.errors)
        /\ e \in {InValidateBrackets, InAdditionalValidation} => AllReturned(parser.errors)
        /\ e # InValidateBrackets => AllReturned(vb.errors)
        /\ e # InAdditionalValidation
             => \A k \in DOMAIN additionalValidation(lines) :
                  \E j \in DOMAIN diagnostics : diagnostics[j] = additionalValidation(lines)[k]

\* the stage of a returned diagnostic: 1 parse, 2 brackets, 3 lint
StageOf(d) ==
  IF d.code \in BracketCodes THEN 2
  ELSE IF d.code \in LintCodes \cup {"missing-story-id"} THEN 3
  ELSE 1

IsParseError(d) == StageOf(d) = 1 /\ d.severity # "Information"

IsBracketError(d) == StageOf(d) = 2

IsLint(d) == StageOf(d) = 3

\* C17: in the returned list every diagnostic of the parse stage precedes
\* every bracket diagnostic, which precedes every lint diagnostic, and each
\* stage's diagnostics are in the order in which the stage found them.
C17_StagesInDiscoveryOrder ==
  /\ \A a, b \in DOMAIN diagnostics :
       a < b => StageOf(diagnostics[a]) <= StageOf(diagnostics[b])
  /\ pc = "ad_done" =>
       /\ SelectSeq(diagnostics, IsParseError) = ConvertAll(parser.errors)
       /\ SelectSeq(diagnostics, IsBracketError) = ConvertAll(vb.errors)
       /\ SelectSeq(diagnostics, IsLint) = additionalValidation(lines)

\* [endif] on line 0 and ~iff x on line 1: the lexer's error for line 1
\* comes first, then the parser's and the bracket validator's for line 0,
\* then the suggestion for line 1
C17_NotInPositionOrder ==
  /\ pc = "ad_done"
  /\ lines = << BrEndif, <<"~","i","f","f"," ","x">> >>
  /\ [j \in DOMAIN diagnostics |-> diagnostics[j].code]
       = <<"unknown-tilde-command", "content-before-story", "unmatched-endif", "typo">>
  /\ [j \in DOMAIN diagnostics |-> diagnostics[j].range.start.line] = <<1, 0, 0, 1>>

InformationDiagnostics ==
  {j \in DOMAIN diagnostics : diagnostics[j].severity = "Information"}

\* C18: the returned list holds exactly one Information diagnostic, the
\* "disabled" one, when the parsed document is marked disabled, and none
\* when it is not.
C18_OneDisabledDiagnostic ==
  pc = "ad_done" =>
    /\ Cardinality(InformationDiagnostics) = IF parser.isDisabled THEN 1 ELSE 0
    /\ \A j \in InformationDiagnostics : diagnostics[j] = DisabledDiagnostic

\* a disabled document whose other stages report too, and a document where
\* ~disabled comes after a story header and does not disable it
C18_DisabledWithOtherReports ==
  /\ pc = "ad_done"
  /\ \/ /\ lines = << <<"~","d","i","s","a","b","l","e","d">>, BrEndif >>
        /\ parser.isDisabled
        /\ Cardinality(InformationDiagnostics) = 1
        /\ DiagsOn("unmatched-endif", 2) # {}
     \/ /\ lines = << LnHeaderS, <<"~","d","i","s","a","b","l","e","d">> >>
        /\ ~parser.isDisabled
        /\ InformationDiagnostics = {}

(***************************************************************************)
(* Server properties                                                       *)
(***************************************************************************)
\* C19: the diagnostics sent to the client are the first min(n, max)
\* entries, in order, of the n diagnostics analyzeDiagnostics returned,
\* max being the maxNumberOfProblems of the validation; nothing is added.
C19_FirstEntriesSent ==
  [][pc = "ad_done"
       => LET n == Len(diagnostics)
              k == IF n < server.settings THEN n ELSE server.settings
          IN  server'.sent = SubSeq(diagnostics, 1, k)]_vars

\* the three diagnostics of ~foo / [endif] published with a limit of two
C19_TwoOfThreeSent ==
  /\ pc = "idle"
  /\ lines = << <<"~","f","o","o">>, BrEndif >>
  /\ [j \in DOMAIN server.sent |-> server.sent[j].code]
       = <<"unknown-tilde-command", "content-before-story">>

\* C20: the parse result a consumer receives is the memoized one, and the
\* memoized result is the parse of the text the document has: a result
\* computed before a change is not kept once the change has been handled.
C20_ConsumersShareCurrentMemo ==
  /\ server.documentParseCache # NoParseResult
       => server.documentParseCache = parse(lines)
  /\ server.response # NoParseResult
       => /\ server.response = server.documentParseCache
          /\ server.response = parse(lines)

\* ~foo / [endif] was validated, the text then changed to ~iff x, and a
\* consumer is served the parse of the new text while the validation of the
\* change is still suspended
C20_ServedAfterChange ==
  /\ pc = "idle"
  /\ lines = << <<"~","i","f","f"," ","x">> >>
  /\ \E j \in DOMAIN server.sent : server.sent[j].code = "content-before-story"
  /\ server.awaiting # <<>>
  /\ server.response # NoParseResult
  /\ Len(server.response.errors) = 1
  /\ server.response.errors[1].code = "unknown-tilde-command"

(***************************************************************************)
(* Hidden choices and bare identifier lines in the tree                    *)
(***************************************************************************)
\* the story loop is about to read a token of this type
Reading(type) ==
  pc = "parse_story" /\ ~isAtEnd(parser) /\ peek(parser).type = type

\* the placement part of a parser state: the roots of the story, the children
\* of every node, the choice stack and the number of orphaned-choice errors
Placement(P) ==
  [choices |-> P.story.choices,
   children |-> [k \in DOMAIN P.nodes |-> P.nodes[k].children],
   choiceStack |-> P.choiceStack,
   orphans |-> Cardinality(WithCode(P.errors, "orphaned-choice"))]

\* where a choice-marker token of the same depth and range, read instead of
\* the hidden marker that is next, would be placed
AsNormalChoice ==
  LET token == peek(parser)
  IN  Placement(StoryChoice(advance(parser),
                            Token("CHOICE", token.value, token.range,
                                  [NoData EXCEPT !.choiceLevel = token.data.choiceLevel])))

\* C24: a hidden-choice marker with an identifier at depth d is placed where a
\* normal choice marker of depth d read at the same point would be placed: the
\* same story roots, the same children of every node, the same choice stack
\* and the same orphaned-choice errors
C24_HiddenPlacedAsChoice ==
  [][(Reading("CHOICE_ID") /\ peek(parser).data.isHidden)
       => Placement(parser') = AsNormalChoice]_vars

\* C25: a bare `= id` line read while the current choice already has an
\* identifier leaves that identifier unchanged
C25_BoundIdKept ==
  [][(/\ Reading("CHOICE_ID")
      /\ ~peek(parser).data.isHidden
      /\ parser.currentChoice # 0
      /\ parser.nodes[parser.currentChoice].id # NoChoiceId)
       => parser'.nodes[parser.currentChoice].id = parser.nodes[parser.currentChoice].id]_vars

(***************************************************************************)
(* The current choice of a story                                           *)
(***************************************************************************)
\* the lines that open a choice: choice markers and hidden-choice markers
OpeningLines == {LnChoice1, LnChoice2, LnChoice3, LnHiddenX, LnHidden2X}

\* the lines of the story of line i, before line i, that open a choice
OpenedBefore(i) ==
  {j \in 1..(i - 1) : StoryOf(j) = StoryOf(i) /\ lines[j] \in OpeningLines}

Max(S) == CHOOSE m \in S : \A k \in S : k <= m

\* the choice nodes read from line j
NodesOfLine(j) == {k \in DOMAIN parser.nodes : parser.nodes[k].range.start.line = j - 1}

\* a list of directives or jumps holds the one read from line i
HoldsLine(list, i) == \E k \in DOMAIN list : list[k].range.start.line = i - 1

\* the choice nodes and the stories that hold the directive of line i
DirectiveNodes(i) ==
  {k \in DOMAIN parser.nodes :
     HoldsLine(parser.nodes[k].requirements, i) \/ HoldsLine(parser.nodes[k].mutations, i)}

DirectiveStories(i) ==
  {k \in DOMAIN parser.stories :
     HoldsLine(parser.stories[k].requirements, i) \/ HoldsLine(parser.stories[k].mutations, i)}

\* C26: after the parse, a requirement or mutation directive of a story is held
\* by the choice most recently opened in that story and by nothing else, or by
\* its story and by nothing else when no choice was opened since the story's
\* header; a jump read when no choice was opened since the header is held by no
\* choice and has exactly one orphaned-jump warning on its line
C26_CurrentChoicePerStory ==
  pc = "parse_done" =>
    \A i \in DOMAIN lines :
      /\ (lines[i] \in {LnIfX, LnSetX} /\ StoryOf(i) >= 1) =>
           IF OpenedBefore(i) # {}
             THEN /\ DirectiveNodes(i) = NodesOfLine(Max(OpenedBefore(i)))
                  /\ Cardinality(DirectiveNodes(i)) = 1
                  /\ DirectiveStories(i) = {}
             ELSE /\ DirectiveNodes(i) = {}
                  /\ DirectiveStories(i) = {StoryOf(i)}
      /\ (lines[i] = LnJumpX /\ StoryOf(i) >= 1 /\ OpenedBefore(i) = {}) =>
           /\ \A k \in DOMAIN parser.nodes : ~HoldsLine(parser.nodes[k].jumps, i)
           /\ Cardinality({j \in WithCode(parser.errors, "orphaned-jump") :
                             LineOf(parser.errors[j]) = i}) = 1

\* a second story whose directive and jump come before any choice of its own,
\* after a first story that opened a choice
C26_SecondStoryStartsFresh ==
  /\ pc = "parse_done"
  /\ lines = <<LnHeaderS, LnChoice1, LnHeaderS, LnIfX>>
  /\ DirectiveStories(4) = {2}
  /\ Len(parser.nodes[1].requirements) = 0

(***************************************************************************)
(* Content before the first story header                                   *)
(***************************************************************************)
\* the content lines: neither empty, nor a header, nor the disabled marker
ContentLines == {LnText, LnIfX, LnChoice1, LnDefX, LnJumpX, LnPageBreak}

\* the document is marked disabled: ~disabled before the first story header
MarkedDisabled == \E i \in DOMAIN lines : lines[i] = LnDisabled /\ StoryOf(i) = 0

\* the 'Content found before story header' warnings on line i
ContentBeforeStoryOn(i) ==
  {j \in WithCode(parser.errors, "content-before-story") : LineOf(parser.errors[j]) = i}

\* C27: after the parse of a document that is not marked disabled, every
\* content line before the first story header has a content-before-story
\* warning on that line; a document marked disabled has none, and no line
\* after the first story header has one
C27_ContentBeforeHeaderWarned ==
  pc = "parse_done" =>
    \A i \in DOMAIN lines :
      IF ~MarkedDisabled /\ StoryOf(i) = 0 /\ lines[i] \in ContentLines
        THEN ContentBeforeStoryOn(i) # {}
        ELSE ContentBeforeStoryOn(i) = {}

(***************************************************************************)
(* Block comments as the lexer and validateBrackets see them               *)
(***************************************************************************)
\* inBlockComment of validateBrackets after the first n lines of ls
RECURSIVE VbInBlockComment(_, _)
VbInBlockComment(ls, n) ==
  IF n = 0 THEN FALSE
  ELSE StripComments(ls[n], VbInBlockComment(ls, n - 1)).inBlockComment

\* C28: after every line, the lexer is inside a block comment exactly when
\* validateBrackets is inside one after the same lines
C28_SameCommentState ==
  pc = "lex_line" => lexer.inBlockComment = VbInBlockComment(lines, lexer.lineNum)

(***************************************************************************)
(* The text after a block comment terminator                               *)
(***************************************************************************)
\* the line the lexer is about to read, and its text after the first terminator
CurrentLine == lines[lexer.lineNum + 1]

AfterTerminator == substringFrom(CurrentLine, indexOf(CurrentLine, CloseComment, 0) + 2)

TokenTypes(tokens) == [k \in DOMAIN tokens |-> tokens[k].type]

\* the tokens the lexer adds in this step
NewTokens == SubSeq(lexer'.tokens, Len(lexer.tokens) + 1, Len(lexer'.tokens))

\* C29: when a line read inside a block comment has the terminator and text
\* after it, the tokens that follow the comment-end token are of the kinds
\* that text yields when it is read as a line of its own
C29_TailClassifiedAsLine ==
  [][(/\ pc = "lex_line"
      /\ lexer.lineNum < Len(lines)
      /\ lexer.inBlockComment
      /\ indexOf(CurrentLine, CloseComment, 0) # -1
      /\ trim(AfterTerminator) # <<>>)
       => TokenTypes(Tail(NewTokens))
            = TokenTypes(tokenizeLine(LexerInit, lexer.lineNum, AfterTerminator).tokens)]_vars

(***************************************************************************)
(* A block comment opened and terminated on one line                       *)
(***************************************************************************)
\* the narrative-text tokens of line i
TextTokensOn(i) ==
  {k \in DOMAIN lexer.tokens :
     lexer.tokens[k].type = "TEXT" /\ lexer.tokens[k].range.start.line = i - 1}

\* C30: a line whose only content is a block comment opened and terminated on
\* that line is classified as a comment, yields no narrative-text token and
\* has no content-before-story warning
C30_OneLineCommentIsComment ==
  pc = "parse_done" =>
    \A i \in DOMAIN lines :
      lines[i] \in {InlineComment, LnBlockCommentIndented} =>
        /\ lexer.lineTypes[i] = "COMMENT"
        /\ TextTokensOn(i) = {}
        /\ ContentBeforeStoryOn(i) = {}

(***************************************************************************)
(* Folding ranges of choices                                               *)
(***************************************************************************)
\* the choice nodes below a choice: its children and their descendants
RECURSIVE Descendants(_, _)
Descendants(nodes, k) ==
  LET children == Range(nodes[k].children)
  IN  children \cup UNION {Descendants(nodes, c) : c \in children}

\* C22: for every choice that has children, the folding ranges hold a range
\* from the choice's line to the greatest end line among all its descendants
C22_FoldToDeepestDescendant ==
  pc = "replied" =>
    \A k \in DOMAIN parser.nodes :
      parser.nodes[k].children # <<>> =>
        \E j \in DOMAIN reply :
          /\ reply[j].startLine = parser.nodes[k].range.start.line
          /\ reply[j].endLine
               = Max({parser.nodes[d].range.end.line : d \in Descendants(parser.nodes, k)})

(***************************************************************************)
(* Completion of jump targets                                              *)
(***************************************************************************)
\* the text before the cursor of the request that was answered
TextBeforeCursor == substring(lines[reply.position.line + 1], 0, reply.position.character)

CompletionLabels == {reply.completions[j].label : j \in DOMAIN reply.completions}

\* C23: when the text before the cursor is a jump prefix on a line inside a
\* story, the completions hold every identifier of that story's identifier map
\* and every special target: start, end, back, backonce, startonce
C23_JumpTargetsOffered ==
  (/\ pc = "replied"
   /\ JumpPrefixMatch(trimStart(TextBeforeCursor))
   /\ StoryOf(reply.position.line + 1) >= 1)
    => /\ DOMAIN parser.stories[StoryOf(reply.position.line + 1)].choiceIds \subseteq CompletionLabels
       /\ SpecialTargets \subseteq CompletionLabels

(***************************************************************************)
(* Several documents                                                       *)
(***************************************************************************)
\* the memoized parse result of a document, when there is one, is the parse
\* of the text of that document
MemoOfOwnText(W, b) ==
  W.documentParseCache[b] # NoParseResult
    => W.documentParseCache[b] = parse(W.documents[b].text)

\* C21: the results kept for a document are those of its own text whatever is
\* done with the other documents: its memoized parse result is the parse of
\* its text, the diagnostics published for it change only by its own
\* validation and are then the analysis of its text, and a change or close
\* notification for another document leaves its memoized parse result unchanged
C21_DocumentsIndependent ==
  [][\A b \in Uris :
       /\ MemoOfOwnText(workspace', b)
       /\ workspace'.sent[b] # workspace.sent[b]
            => /\ workspace'.handled = [kind |-> "validate", uri |-> b]
               /\ workspace'.sent[b] = analyzeDiagnostics(workspace.documents[b].text)
       /\ (workspace'.handled.kind \in {"change", "close"} /\ workspace'.handled.uri # b)
            => workspace'.documentParseCache[b] = workspace.documentParseCache[b]]_vars

\* a change of document a handled while the parse result of document b, of
\* another text, is memoized
C21_ChangeBesideMemo ==
  /\ workspace.handled = [kind |-> "change", uri |-> "a"]
  /\ workspace.documentParseCache["b"] # NoParseResult
  /\ workspace.documents["a"].text # workspace.documents["b"].text
  /\ workspace.sent["b"] # <<>>

(***************************************************************************)
(* The block comment left open at the end of input                         *)
(***************************************************************************)
UnclosedCommentErrors == WithCode(lexer.errors, "unclosed-comment")

\* the text has the opening marker at this position and no terminator after
\* it, on its line or on a later one
OpenMarkerAt(position) ==
  /\ MatchAt(lines[position.line + 1], OpenComment, position.character)
  /\ indexOf(lines[position.line + 1], CloseComment, position.character + 2) = -1
  /\ \A k \in (position.line + 2)..Len(lines) : indexOf(lines[k], CloseComment, 0) = -1

EndOfLastLine == [line |-> Len(lines) - 1, character |-> Len(lines[Len(lines)])]

BareCommand(line) ==
  LET trimmed == trim(line)
  IN  IF startsWith(trimmed, <<"~">>) /\ Len(trimmed) > 1 /\ 1 + WordRun(trimmed, 1) = Len(trimmed)
        THEN toLowerCase(substringFrom(trimmed, 1))
        ELSE <<>>

NoExpressionNeeded ==
  { <<"d","i","s","a","b","l","e","d">>, <<"o","n","c","e">>, <<"s","e","t">>, <<"c","a","l","l">> }

ExpressionRequired ==
  { <<"i","f">>, <<"i","f","d">>, <<"s","e","t","i","f">>, <<"c","a","l","l","i","f">> }

LexerErrorsOn(i) == {j \in DOMAIN lexer.errors : LineOf(lexer.errors[j]) = i}

\* C32: a recognized tilde command with no expression has no lexer diagnostic
\* on its line when it is disabled, once, set or call; when it is if, ifd,
\* setif or callif it has exactly one, the warning '~<cmd> requires a condition
\* or expression', and so no parenthesis diagnostic
C32_EmptyExpression ==
  \A i \in 1..lexer.lineNum :
    /\ BareCommand(lines[i]) \in NoExpressionNeeded => LexerErrorsOn(i) = {}
    /\ BareCommand(lines[i]) \in ExpressionRequired =>
         /\ Cardinality(LexerErrorsOn(i)) = 1
         /\ \A j \in LexerErrorsOn(i) :
              /\ lexer.errors[j].message = "~${cmd} requires a condition or expression"
              /\ lexer.errors[j].arg = BareCommand(lines[i])
              /\ lexer.errors[j].severity = "warning"
              /\ lexer.errors[j].code = "empty-tilde-expression"

\* ~set with no expression read without a diagnostic, then ~SETIF with none
\* read with its warning
C32_ShorthandThenWarning ==
  /\ lines = << <<" ","~","s","e","t"," ">>, <<"~","S","E","T","I","F">> >>
  /\ lexer.lineNum = 2
  /\ LexerErrorsOn(1) = {}
  /\ Cardinality(LexerErrorsOn(2)) = 1

(***************************************************************************)
(* Directive expressions: after an extra ")"                               *)
(***************************************************************************)
\* the columns of the "(" that come after the first extra ")" of the
\* expression and are not closed by any later ")"
UnclosedAfterExtraClose(line) ==
  {k \in CommandEnd(line)..(Len(line) - 1) :
     /\ line[k + 1] = "("
     /\ ExtraCloseColumns(line) # {}
     /\ k > Min(ExtraCloseColumns(line))
     /\ \A m \in (k + 1)..Len(line) :
          CountIn(line, ")", k + 1, m) <= CountIn(line, "(", k + 1, m)}

MissingCloseErrorsOn(i) ==
  {j \in ParenErrorsOn(i) : lexer.errors[j].message = "Unbalanced parentheses: missing )"}

\* C33: on an ~if, ~ifd, ~set or ~setif line where an extra ")" has been
\* reported, a later "(" that no ")" closes before the end of the expression
\* yields a 'missing )' diagnostic, however many extra ")" come before it.
C33_LaterOpenStillReported ==
  \A i \in ParenDirectiveLines :
    UnclosedAfterExtraClose(lines[i]) # {} => MissingCloseErrorsOn(i) # {}

(***************************************************************************)
(* The `start` entry of a story's identifier map                           *)
(***************************************************************************)
\* the line of the header of story k
HeaderLineOf(k) ==
  CHOOSE i \in DOMAIN lines : lines[i] \in HeaderLines /\ StoryOf(i) = k

\* story, the k-th of the document, maps `start` to a hidden definition on
\* the range of its header
HasStartEntry(story, k) ==
  /\ story.headerRange = LineRange(HeaderLineOf(k))
  /\ kwStart \in DOMAIN story.choiceIds
  /\ story.choiceIds[kwStart] = ChoiceIdNode(kwStart, story.headerRange, TRUE)

StartDefinitionLines ==
  {i \in DOMAIN lines : lines[i] \in {LnDefStart, LnHiddenStart} /\ StoryOf(i) >= 1}

\* C34: the story being read and every story already read map `start` to a
\* definition on the story header's range, and when parsing has ended every
\* `= start` or `*= start` line of a story has exactly one duplicate-choice-ID
\* error on its range.
C34_StartEntryKept ==
  /\ parser.story.type = "story" => HasStartEntry(parser.story, Len(parser.stories) + 1)
  /\ \A k \in DOMAIN parser.stories : HasStartEntry(parser.stories[k], k)
  /\ pc = "parse_done" =>
       \A i \in StartDefinitionLines :
         /\ Cardinality({j \in DuplicatesIn(StoryOf(i), kwStart) :
                           LineOf(parser.errors[j]) = i}) = 1
         /\ \A j \in DuplicatesIn(StoryOf(i), kwStart) :
              LineOf(parser.errors[j]) = i => parser.errors[j].range = LineRange(i)

\* a story with `= start` under a choice and `*= start` after it, read to the
\* end, and a second story after it
C34_BothFormsInOneStory ==
  /\ pc = "parse_done"
  /\ lines = <<LnHeaderS, LnChoice1, LnDefStart, LnHiddenStart, LnHeaderS>>
  /\ Len(parser.stories) = 2
  /\ Cardinality(DuplicatesIn(1, kwStart)) = 2
  /\ parser.stories[1].choiceIds[kwStart].range = LineRange(1)
  /\ parser.stories[2].choiceIds[kwStart].range = LineRange(5)

(***************************************************************************)
(* ~disabled among the first tokens                                        *)
(***************************************************************************)
\* the number of tokens of the lines before line i: one for each line that
\* is not blank
TokensBefore(i) == Cardinality({h \in 1..(i - 1) : trim(lines[h]) # <<>>})

\* the ~disabled lines with fewer than 10 tokens and no story header before them
DisabledInLookahead ==
  {i \in DOMAIN lines :
     /\ lines[i] = LnDisabled
     /\ TokensBefore(i) < 10
     /\ \A h \in 1..(i - 1) : lines[h] \notin HeaderLines}

\* C35: once checkDisabled has run, the document is marked disabled exactly
\* when some ~disabled line has fewer than 10 tokens and no story header
\* before it; a ~disabled line after a header or after 10 tokens or more does
\* not mark it.
C35_DisabledInLookahead ==
  pc # "parse_start" => (parser.isDisabled <=> DisabledInLookahead # {})

\* ten lines of text, one token each, then ~disabled: not marked
C35_EleventhTokenIgnored ==
  /\ pc = "parse_done"
  /\ lines = [k \in 1..10 |-> LnText] \o <<LnDisabled>>
  /\ Len(parser.tokens) = 12
  /\ ~parser.isDisabled

(***************************************************************************)
(* Termination of Parser.parse                                             *)
(***************************************************************************)
\* a step of the parser: the token index does not decrease and stays inside
\* the token list, and an iteration of the document loop or of the story loop
\* moves the index forward or leaves the loop
ParseProgress ==
  /\ parser'.current >= parser.current
  /\ parser'.current < Len(parser'.tokens)
  /\ pc \in {"parse_doc", "parse_story"} =>
       parser'.current > parser.current \/ pc' # pc

\* parse() has returned with the index on the EOF token, the last of the list
ParsedToEOF ==
  /\ pc = "parse_done"
  /\ parser.current = Len(parser.tokens) - 1
  /\ parser.tokens[parser.current + 1].type = "EOF"

\* C36: every step of Parser.parse keeps the token index from decreasing,
\* every iteration of its two loops consumes a token or leaves the loop, and
\* on every token list the lexer hands over the parse comes to its end with
\* the index on EOF.
C36_ParseTerminates ==
  [][ParseProgress]_vars /\ ((pc = "parse_doc") ~> ParsedToEOF)

\* text before the first header, then a story with a choice, parsed to the end
C36_PreambleAndStoryParsed ==
  /\ ParsedToEOF
  /\ lines = <<LnText, LnHeaderS, LnChoice1>>
  /\ parser.current = 3
  /\ Len(parser.stories) = 1

(***************************************************************************)
(* The choice stack of a story                                             *)
(***************************************************************************)
AnyChoiceLines == {LnChoice1, LnChoice2, LnChoice3, LnHiddenX, LnHidden2X}

\* the choice lines, normal or hidden, of the story being read that the
\* parser has gone past; every line of these documents is one token
ChoicesReadInStory ==
  {i \in 1..parser.current :
     lines[i] \in AnyChoiceLines /\ StoryOf(i) = Len(parser.stories) + 1}

OrphanedChoiceLines ==
  {LineOf(parser.errors[j]) : j \in WithCode(parser.errors, "orphaned-choice")}

\* C37: while a story is read, once one of its choices has been read the
\* choice stack is not empty; and every orphaned-choice error is on a choice
\* line of depth 2 or more that no choice of its story precedes.
C37_StackStaysNonEmpty ==
  /\ (pc = "parse_story" /\ ChoicesReadInStory # {}) => parser.choiceStack # <<>>
  /\ \A i \in OrphanedChoiceLines :
       /\ lines[i] \in {LnChoice2, LnChoice3}
       /\ StoryOf(i) >= 1
       /\ \A h \in 1..(i - 1) : StoryOf(h) = StoryOf(i) => lines[h] \notin AnyChoiceLines

\* a story that opens with a depth-3 choice, reported, and goes on with a
\* depth-2 and a depth-3 choice, not reported
C37_OnlyTheFirstIsOrphaned ==
  /\ pc = "parse_story"
  /\ lines = <<LnHeaderS, LnChoice3, LnChoice2, LnChoice3>>
  /\ parser.current = 4
  /\ OrphanedChoiceLines = {2}
  /\ Len(parser.choiceStack) = 3

(***************************************************************************)
(* validateBrackets: the balance of keywords, frames and errors            *)
(***************************************************************************)
\* whether line i of the text is read inside a block comment
RECURSIVE InBlockBefore(_)
InBlockBefore(i) ==
  IF i = 1 THEN FALSE
  ELSE StripComments(lines[i - 1], InBlockBefore(i - 1)).inBlockComment

\* line i of the text without its comments
Uncommented(i) == StripComments(lines[i], InBlockBefore(i)).line

KeywordKind(content) ==
  IF IsOpeningKeyword(content) THEN "opening"
  ELSE IF IsClosingKeyword(content) THEN "closing"
  ELSE "other"

\* the number of bracket expressions of one kind in a piece of text, from a column on
RECURSIVE KeywordsIn(_, _, _)
KeywordsIn(text, from, kind) ==
  LET m == BracketExec(text, from)
  IN  IF ~m.found THEN 0
      ELSE (IF KeywordKind(toLowerCase(trim(m.inner))) = kind THEN 1 ELSE 0)
           + KeywordsIn(text, m.index + m.length, kind)

RECURSIVE KeywordsInLines(_, _)
KeywordsInLines(n, kind) ==
  IF n = 0 THEN 0
  ELSE KeywordsInLines(n - 1, kind) + KeywordsIn(Uncommented(n), 0, kind)

\* the keywords of one kind, outside comments, that the scan has gone past
KeywordsRead(kind) ==
  KeywordsInLines(vb.lineNum, kind)
    + (IF pc = "vb_scan" THEN KeywordsIn(substring(vb.line, 0, vb.lastIndex), 0, kind) ELSE 0)

\* C38: at every point of validateBrackets the frame stack holds as many
\* frames as opening keywords read minus closing keywords read that found a
\* frame (the closing keywords that did not are the unmatched-close errors),
\* and at the end opening keywords + unmatched-close errors = closing
\* keywords + unclosed-block errors, keywords being counted outside comments.
C38_KeywordBalance ==
  LET opens == KeywordsRead("opening")
      closes == KeywordsRead("closing")
      unmatched == Cardinality(WithCode(vb.errors, "unmatched-endif"))
      unclosed == Cardinality(WithCode(vb.errors, "unclosed-if"))
  IN  /\ closes - unmatched >= 0
      /\ Len(vb.stack) = opens - (closes - unmatched)
      /\ pc = "vb_done" => opens + unmatched = closes + unclosed

\* [endif] with nothing open, then two blocks opened and never closed, one of
\* them after a comment: 2 opening + 1 unmatched = 1 closing + 2 unclosed
C38_UnmatchedAndUnclosed ==
  /\ pc = "vb_done"
  /\ lines = << BrEndif, BrIf \o BrOr \o BrElseif, InlineComment \o BrIf >>
  /\ KeywordsRead("opening") = 2
  /\ KeywordsRead("closing") = 1
  /\ Cardinality(WithCode(vb.errors, "unmatched-endif")) = 1
  /\ Cardinality(WithCode(vb.errors, "unclosed-if")) = 2

(***************************************************************************)
(* validateTextDocument and the text it publishes for                      *)
(***************************************************************************)
\* diags cut to some configured number of problems
CappedForms(diags) == {LimitProblems(diags, v) : v \in SettingsValues}

\* the document is open and no call of validateTextDocument is suspended or running
Settled == pc = "idle" /\ server.open /\ server.awaiting = <<>>

\* C39: whatever the order of changes, configuration changes and resumptions,
\* each publication is analyzeDiagnostics of the text the document has when
\* the suspended call resumes, cut to that call's settings; and once no call
\* is left suspended the diagnostics last published for an open document are
\* those of its latest text, cut to a configured limit.
C39_LatestTextPublished ==
  /\ [][pc = "ad_done"
          => server'.sent = LimitProblems(analyzeDiagnostics(lines), server.settings)]_vars
  /\ [](Settled => server.sent \in CappedForms(analyzeDiagnostics(lines)))

\* the document holds the two-line text, nothing is left suspended, and its
\* three diagnostics are the ones published
C39_SettledOnLatestText ==
  /\ Settled
  /\ lines = << <<"~","f","o","o">>, BrEndif >>
  /\ Len(server.sent) = 3
  /\ server.sent = analyzeDiagnostics(lines)

====
